---- MODULE Spec2Model ----
(***************************************************************************)
(* PV Exciting Information (Home Assistant custom integration).            *)
(*                                                                         *)
(* The model covers custom_components/exciting_information: the config     *)
(* and options flow (config_flow.py), the merge of entry data and options  *)
(* (__init__.py) and the sensor platform (sensor.py): the unit             *)
(* normalisation, the metric computation, the text rendering and the       *)
(* per-entity publication of the result.                                   *)
(*                                                                         *)
(* Numbers.  Python floats are modelled as extended rationals: a record    *)
(* [num, den] in lowest terms with den > 0, and den = 0 for the three      *)
(* non-finite floats (num = 1: inf, num = -1: -inf, num = 0: nan).         *)
(* Arithmetic is exact, so a result differs from the float result only     *)
(* where binary representation error moves a value across a rounding tie.  *)
(* None is the empty tuple, which TLC compares with any record.            *)
(***************************************************************************)
EXTENDS Integers, Sequences, FiniteSets, TLC

None == <<>>

\* ------------------------------------------------------------------------
\* Extended rational arithmetic (Python float semantics)
\* ------------------------------------------------------------------------

Abs(n) == IF n < 0 THEN -n ELSE n

RECURSIVE GCD(_, _)
GCD(a, b) == IF b = 0 THEN a ELSE GCD(b, a % b)

Pow10(n) == CASE n = 0 -> 1 [] n = 1 -> 10 [] n = 2 -> 100 [] n = 3 -> 1000

INF == [num |-> 1, den |-> 0]
NINF == [num |-> -1, den |-> 0]
NAN == [num |-> 0, den |-> 0]

\* the float n/d, d > 0, in lowest terms
Q(n, d) ==
    LET g == GCD(Abs(n), d)
    IN  IF n = 0 THEN [num |-> 0, den |-> 1]
        ELSE [num |-> n \div g, den |-> d \div g]

\* the float with the decimal digits n and k decimals, e.g. Dec(42195, 3) = 42.195
Dec(n, k) == Q(n, Pow10(k))

IsFinite(x) == x.den # 0
IsNaN(x) == x.den = 0 /\ x.num = 0
IsZero(x) == x.den # 0 /\ x.num = 0
Sign(x) == IF x.num > 0 THEN 1 ELSE IF x.num < 0 THEN -1 ELSE 0

\* x > 0 (false for nan)
GtZero(x) == x.num > 0

\* a < b on finite values
LessThan(a, b) == a.num * b.den < b.num * a.den

FromSign(s) == IF s > 0 THEN INF ELSE IF s < 0 THEN NINF ELSE NAN

ZeroDivisionError == [exc |-> "ZeroDivisionError"]
IsExc(x) == "exc" \in DOMAIN x

\* a * b
Mul(a, b) ==
    IF IsNaN(a) \/ IsNaN(b) THEN NAN
    ELSE IF ~IsFinite(a) \/ ~IsFinite(b) THEN FromSign(Sign(a) * Sign(b))
    ELSE LET g1 == GCD(Abs(a.num), b.den)
             g2 == GCD(Abs(b.num), a.den)
             h1 == IF g1 = 0 THEN 1 ELSE g1
             h2 == IF g2 = 0 THEN 1 ELSE g2
         IN  Q((a.num \div h1) * (b.num \div h2), (a.den \div h2) * (b.den \div h1))

\* a / b: Python raises ZeroDivisionError for a zero divisor
Div(a, b) ==
    IF IsZero(b) THEN ZeroDivisionError
    ELSE IF IsNaN(a) \/ IsNaN(b) THEN NAN
    ELSE IF ~IsFinite(b) THEN (IF IsFinite(a) THEN Q(0, 1) ELSE NAN)
    ELSE IF ~IsFinite(a) THEN FromSign(Sign(a) * Sign(b))
    ELSE Mul(a, [num |-> Sign(b) * b.den, den |-> Abs(b.num)])

\* a + b
Add(a, b) ==
    IF IsNaN(a) \/ IsNaN(b) THEN NAN
    ELSE IF ~IsFinite(a) /\ ~IsFinite(b) THEN (IF a = b THEN a ELSE NAN)
    ELSE IF ~IsFinite(a) THEN a
    ELSE IF ~IsFinite(b) THEN b
    ELSE Q(a.num * b.den + b.num * a.den, a.den * b.den)

Neg(a) == [num |-> -a.num, den |-> a.den]

\* a - b
Sub(a, b) == Add(a, Neg(b))

\* max(a, 0): the first argument stays unless 0 > a is false; max(nan, 0) is nan
Max0(a) == IF a.num < 0 THEN Q(0, 1) ELSE a

\* x or 0: a float is falsy exactly when it is zero
OrZero(x) == IF x = None THEN Q(0, 1) ELSE x

\* the first n decimal digits of r / den (0 <= r < den) and the remainder
\* left after them, by long division
RECURSIVE LongDiv(_, _, _)
LongDiv(r, den, n) ==
    IF n = 0 THEN [q |-> 0, r |-> r]
    ELSE LET prev == LongDiv(r, den, n - 1)
         IN  [q |-> prev.q * 10 + ((prev.r * 10) \div den), r |-> (prev.r * 10) % den]

\* round(x, ndigits): round half to even on the exact value; a non-finite
\* float rounds to itself.  Rounding to even is symmetric, so the magnitude
\* is rounded and the sign restored.
Round(x, ndigits) ==
    IF ~IsFinite(x) THEN x
    ELSE LET p == Pow10(ndigits)
             mag == Abs(x.num)
             ld == LongDiv(mag % x.den, x.den, ndigits)
             f == (mag \div x.den) * p + ld.q
             n == IF 2 * ld.r < x.den THEN f
                  ELSE IF 2 * ld.r > x.den THEN f + 1
                  ELSE IF f % 2 = 0 THEN f ELSE f + 1
         IN  Q(Sign(x) * n, p)

\* format(x, ".<decimals>f"): the digits shown and the number of decimals
Format(x, decimals) == [shown |-> Round(x, decimals), decimals |-> decimals]

\* ------------------------------------------------------------------------
\* Host state objects
\* ------------------------------------------------------------------------

\* An optional string is a tuple of length at most one: <<"kWh">>, or None.
Str(s) == <<s>>

ATTR_UNIT_OF_MEASUREMENT == "unit_of_measurement"
KILO_WATT_HOUR == Str("kWh")
WATT_HOUR == Str("Wh")
KILO_WATT == Str("kW")
WATT == Str("W")

\* attributes.get(key)
AttrGet(attributes, key) ==
    IF key \in DOMAIN attributes THEN attributes[key] ELSE None

\* a host state object with a unit attribute
State(s, unit) == [state |-> s, attributes |-> [unit_of_measurement |-> unit]]

\* a host state object without unit attribute
StateNoUnit(s) == [state |-> s, attributes |-> [friendly_name |-> Str("sensor")]]

ValueError == [exc |-> "ValueError"]

\* The strings float() accepts, among the state strings of the model
FloatLiterals ==
    [s \in {"0", "1", "2", "3", "5", "8", "1000", "2000", "2.5", "0.5", "-3",
            "inf", "-inf", "nan"} |->
        CASE s = "0" -> Dec(0, 0)
          [] s = "1" -> Dec(1, 0)
          [] s = "2" -> Dec(2, 0)
          [] s = "3" -> Dec(3, 0)
          [] s = "5" -> Dec(5, 0)
          [] s = "8" -> Dec(8, 0)
          [] s = "1000" -> Dec(1000, 0)
          [] s = "2000" -> Dec(2000, 0)
          [] s = "2.5" -> Dec(25, 1)
          [] s = "0.5" -> Dec(5, 1)
          [] s = "-3" -> Dec(-3, 0)
          [] s = "inf" -> INF
          [] s = "-inf" -> NINF
          [] s = "nan" -> NAN]

\* float(s): the value, or ValueError for a string that is no float literal
float(s) == IF s \in DOMAIN FloatLiterals THEN FloatLiterals[s] ELSE ValueError

\* EnergyConverter.convert(value, unit, UnitOfEnergy.KILO_WATT_HOUR)
EnergyConverter_convert(value, unit) ==
    IF unit = WATT_HOUR THEN Div(value, Dec(1000, 0)) ELSE value

\* PowerConverter.convert(value, unit, UnitOfPower.KILO_WATT)
PowerConverter_convert(value, unit) ==
    IF unit = WATT THEN Div(value, Dec(1000, 0)) ELSE value

\* _get_kwh_from_state that takes a reading of 0 for no reading
_get_kwh_from_state_zero_absent(state) ==
    IF state = None \/ state.state \in {"unknown", "unavailable"} THEN None
    ELSE LET value == float(state.state)
             unit == AttrGet(state.attributes, ATTR_UNIT_OF_MEASUREMENT)
         IN  IF IsExc(value) THEN None
             ELSE IF IsZero(value) THEN None
             ELSE IF unit \in {KILO_WATT_HOUR, WATT_HOUR}
                  THEN EnergyConverter_convert(value, unit)
             ELSE IF unit \in {KILO_WATT, WATT}
                  THEN PowerConverter_convert(value, unit)
             ELSE value

\* _get_kwh_from_state without the branch of the power units
_get_kwh_from_state_no_power(state) ==
    IF state = None \/ state.state \in {"unknown", "unavailable"} THEN None
    ELSE LET value == float(state.state)
             unit == AttrGet(state.attributes, ATTR_UNIT_OF_MEASUREMENT)
         IN  IF IsExc(value) THEN None
             ELSE IF unit \in {KILO_WATT_HOUR, WATT_HOUR}
                  THEN EnergyConverter_convert(value, unit)
             ELSE value

_get_kwh_from_state(state) ==
    IF state = None \/ state.state \in {"unknown", "unavailable"} THEN None
    ELSE LET value == float(state.state)
             unit == AttrGet(state.attributes, ATTR_UNIT_OF_MEASUREMENT)
         IN  IF IsExc(value) THEN None
             ELSE IF unit \in {KILO_WATT_HOUR, WATT_HOUR}
                  THEN EnergyConverter_convert(value, unit)
             ELSE IF unit \in {KILO_WATT, WATT}
                  THEN PowerConverter_convert(value, unit)
             ELSE value

\* ------------------------------------------------------------------------
\* Reference constants and text tables
\* ------------------------------------------------------------------------

EARTH_CIRCUMFERENCE_KM == Dec(39100, 0)
LISBON_BERLIN_KM == Dec(2310, 0)
NEW_YORK_MEXICO_CITY_KM == Dec(3360, 0)
MARATHON_KM == Dec(42195, 3)
BERLIN_HAMBURG_KM == Dec(289, 0)
MUNICH_HAMBURG_KM == Dec(776, 0)
PARIS_LYON_KM == Dec(465, 0)
LONDON_EDINBURGH_KM == Dec(534, 0)
ROME_MILAN_KM == Dec(571, 0)
MADRID_BARCELONA_KM == Dec(621, 0)
VIENNA_PRAGUE_KM == Dec(333, 0)
LA_SF_KM == Dec(615, 0)
TOKYO_OSAKA_KM == Dec(515, 0)
COFFEE_KWH == Dec(7, 2)
PHONE_CHARGE_KWH == Dec(12, 3)
LAPTOP_CHARGE_KWH == Dec(6, 2)
LED_BULB_KWH_PER_HOUR == Dec(1, 2)
TV_KWH_PER_HOUR == Dec(1, 1)
HEAT_PUMP_KWH_PER_HOUR == Dec(25, 1)
FRIDGE_KWH_PER_DAY == Dec(15, 1)
WASHING_CYCLE_KWH == Dec(10, 1)
DISHWASHER_CYCLE_KWH == Dec(12, 1)
HOT_SHOWER_KWH == Dec(45, 1)
MICROWAVE_MEAL_KWH == Dec(1, 1)
KETTLE_BOIL_KWH == Dec(11, 2)
FUEL_L_PER_100KM == Dec(70, 1)
CO2_KG_PER_LITER == Dec(231, 2)

\* the languages that have an entry in MESSAGE_TEMPLATES, METRIC_TEXTS and SOURCE_LABELS
TemplateLanguages == {"de", "en", "fr", "it", "es"}

\* MESSAGE_TEMPLATES[lang].format(consumption, distance, source): both numbers
\* are formatted with one decimal in every language
MESSAGE_TEMPLATES ==
    [lang \in TemplateLanguages |->
        [consumption_decimals |-> 1, distance_decimals |-> 1]]

\* SOURCE_LABELS[lang][source_key]: the label is identified by its table position
SOURCE_LABELS ==
    [lang \in TemplateLanguages |->
        [source_key \in {"energy", "power"} |-> [label |-> <<lang, source_key>>]]]

\* the texts dict built without the sentence of the autarky ratio
TextKeys_no_autarky ==
    {"earth_rounds", "coffee_cups", "fuel_saved_liters", "co2_saved_kg",
     "self_consumed_kwh", "self_consumption_ratio", "grid_import_kwh",
     "grid_export_kwh", "grid_net_kwh", "lisbon_berlin_trips",
     "nyc_mexico_trips", "marathon_equivalents", "berlin_hamburg_trips",
     "munich_hamburg_trips", "paris_lyon_trips", "london_edinburgh_trips",
     "rome_milan_trips", "madrid_barcelona_trips", "vienna_prague_trips",
     "la_sf_trips", "tokyo_osaka_trips", "phone_charges", "laptop_charges",
     "led_bulb_hours", "tv_hours", "heat_pump_hours", "fridge_days",
     "washing_cycles", "dishwasher_cycles", "hot_showers", "microwave_meals",
     "kettle_boils"}

\* the keys of the texts dict, which are the keys of one language table of
\* METRIC_TEXTS
TextKeys ==
    {"earth_rounds", "coffee_cups", "fuel_saved_liters", "co2_saved_kg",
     "self_consumed_kwh", "self_consumption_ratio", "grid_import_kwh",
     "grid_export_kwh", "grid_net_kwh", "autarky_ratio", "lisbon_berlin_trips",
     "nyc_mexico_trips", "marathon_equivalents", "berlin_hamburg_trips",
     "munich_hamburg_trips", "paris_lyon_trips", "london_edinburgh_trips",
     "rome_milan_trips", "madrid_barcelona_trips", "vienna_prague_trips",
     "la_sf_trips", "tokyo_osaka_trips", "phone_charges", "laptop_charges",
     "led_bulb_hours", "tv_hours", "heat_pump_hours", "fridge_days",
     "washing_cycles", "dishwasher_cycles", "hot_showers", "microwave_meals",
     "kettle_boils"}

\* the decimals of the {value:.Nf} field of a metric sentence (equal in all
\* five languages)
ValueDecimals(key) ==
    CASE key = "earth_rounds" -> 3
      [] key \in {"coffee_cups", "phone_charges", "laptop_charges", "led_bulb_hours",
                  "tv_hours", "heat_pump_hours", "microwave_meals", "kettle_boils"} -> 0
      [] key \in {"fuel_saved_liters", "co2_saved_kg", "self_consumption_ratio",
                  "autarky_ratio", "fridge_days", "washing_cycles",
                  "dishwasher_cycles", "hot_showers"} -> 1
      [] OTHER -> 2

\* the decimals of the constant field of a metric sentence ({distance_km},
\* {energy_kwh}, {coffee_kwh}, {fuel_l_per_100km}, {co2_kg_per_liter})
ConstDecimals(key) ==
    CASE key = "phone_charges" -> 3
      [] key \in {"coffee_cups", "co2_saved_kg", "laptop_charges", "led_bulb_hours",
                  "tv_hours", "microwave_meals", "kettle_boils"} -> 2
      [] key \in {"fuel_saved_liters", "marathon_equivalents", "heat_pump_hours",
                  "fridge_days", "washing_cycles", "dishwasher_cycles",
                  "hot_showers"} -> 1
      [] OTHER -> 0

\* METRIC_TEXTS[lang][key]: the format fields of the sentence
METRIC_TEXTS ==
    [lang \in TemplateLanguages |->
        [key \in TextKeys |->
            [value_decimals |-> ValueDecimals(key), const_decimals |-> ConstDecimals(key)]]]

\* table.get(language, table["en"])
GetLang(table, language) ==
    IF language \in DOMAIN table THEN [lang |-> language, entry |-> table[language]]
    ELSE [lang |-> "en", entry |-> table["en"]]

\* metric_texts[key].format(value=value, <constant>=constant)
FormatText(metric_texts, key, value, constant) ==
    [lang |-> metric_texts.lang, key |-> key,
     value |-> Format(value, metric_texts.entry[key].value_decimals),
     constant |-> Format(constant, metric_texts.entry[key].const_decimals)]

\* metric_texts[key].format(value=value)
FormatText1(metric_texts, key, value) ==
    [lang |-> metric_texts.lang, key |-> key,
     value |-> Format(value, metric_texts.entry[key].value_decimals)]

\* the text of a grid metric that is rendered whenever the value is truthy
OptionalText_truthy(metric_texts, key, value) ==
    IF value # None /\ ~IsZero(value) THEN FormatText1(metric_texts, key, value) ELSE None

\* metric_texts[key].format(value=value) if value is not None else None
OptionalText(metric_texts, key, value) ==
    IF value # None THEN FormatText1(metric_texts, key, value) ELSE None

\* the language taken from the last subtag of the host language
_get_language_last_subtag(host_language) ==
    IF host_language = None \/ host_language = <<"">> THEN "en"
    ELSE host_language[Len(host_language)]

\* hass.config.language is a sequence of subtags ("de-CH" is <<"de", "CH">>),
\* the empty string is <<"">>
_get_language(host_language) ==
    IF host_language = None \/ host_language = <<"">> THEN "en"
    ELSE host_language[1]

\* ------------------------------------------------------------------------
\* Metric computation (SolarInfoSensor._update_from_state)
\* ------------------------------------------------------------------------

\* the keys of the metric_values dict
MetricValueKeys ==
    {"marathon_equivalents", "berlin_hamburg_trips", "munich_hamburg_trips",
     "paris_lyon_trips", "london_edinburgh_trips", "rome_milan_trips",
     "madrid_barcelona_trips", "vienna_prague_trips", "la_sf_trips",
     "tokyo_osaka_trips", "phone_charges", "laptop_charges", "led_bulb_hours",
     "tv_hours", "heat_pump_hours", "fridge_days", "washing_cycles",
     "dishwasher_cycles", "hot_showers", "microwave_meals", "kettle_boils",
     "co2_saved_kg", "self_consumed_kwh", "self_consumption_ratio",
     "grid_import_kwh", "grid_export_kwh", "grid_net_kwh", "autarky_ratio"}

\* hass.states.get(entity_id) if entity_id else None
StatesGet(states, entity_id) ==
    IF entity_id = None \/ entity_id = Str("") THEN None
    ELSE IF entity_id[1] \in DOMAIN states THEN states[entity_id[1]] ELSE None

\* round(x, n) if x is not None else None
RoundOpt(x, n) == IF x # None THEN Round(x, n) ELSE None

\* the reference distance of a distance-based key of metric_values
ReferenceKm(key) ==
    CASE key = "marathon_equivalents" -> MARATHON_KM
      [] key = "berlin_hamburg_trips" -> BERLIN_HAMBURG_KM
      [] key = "munich_hamburg_trips" -> MUNICH_HAMBURG_KM
      [] key = "paris_lyon_trips" -> PARIS_LYON_KM
      [] key = "london_edinburgh_trips" -> LONDON_EDINBURGH_KM
      [] key = "rome_milan_trips" -> ROME_MILAN_KM
      [] key = "madrid_barcelona_trips" -> MADRID_BARCELONA_KM
      [] key = "vienna_prague_trips" -> VIENNA_PRAGUE_KM
      [] key = "la_sf_trips" -> LA_SF_KM
      [] key = "tokyo_osaka_trips" -> TOKYO_OSAKA_KM

\* the reference energy of an energy-based key of metric_values
ReferenceKwh(key) ==
    CASE key = "phone_charges" -> PHONE_CHARGE_KWH
      [] key = "laptop_charges" -> LAPTOP_CHARGE_KWH
      [] key = "led_bulb_hours" -> LED_BULB_KWH_PER_HOUR
      [] key = "tv_hours" -> TV_KWH_PER_HOUR
      [] key = "heat_pump_hours" -> HEAT_PUMP_KWH_PER_HOUR
      [] key = "fridge_days" -> FRIDGE_KWH_PER_DAY
      [] key = "washing_cycles" -> WASHING_CYCLE_KWH
      [] key = "dishwasher_cycles" -> DISHWASHER_CYCLE_KWH
      [] key = "hot_showers" -> HOT_SHOWER_KWH
      [] key = "microwave_meals" -> MICROWAVE_MEAL_KWH
      [] key = "kettle_boils" -> KETTLE_BOIL_KWH

\* every energy-based key of metric_values rounded to whole units
EnergyDigits_all_zero(key) == 0

\* the ndigits argument of round() for an energy-based key of metric_values
EnergyDigits(key) ==
    IF key \in {"fridge_days", "washing_cycles", "dishwasher_cycles", "hot_showers"}
    THEN 1 ELSE 0

DistanceKeys ==
    {"marathon_equivalents", "berlin_hamburg_trips", "munich_hamburg_trips",
     "paris_lyon_trips", "london_edinburgh_trips", "rome_milan_trips",
     "madrid_barcelona_trips", "vienna_prague_trips", "la_sf_trips",
     "tokyo_osaka_trips"}

EnergyKeys ==
    {"phone_charges", "laptop_charges", "led_bulb_hours", "tv_hours",
     "heat_pump_hours", "fridge_days", "washing_cycles", "dishwasher_cycles",
     "hot_showers", "microwave_meals", "kettle_boils"}

\* the source kind that takes every unit of the two converters for energy
SourceKey_any_known_unit(unit) ==
    IF unit \in {KILO_WATT_HOUR, WATT_HOUR, KILO_WATT, WATT} THEN "energy" ELSE "power"

\* the source kind of the PV reading
SourceKey(unit) ==
    IF unit \in {KILO_WATT_HOUR, WATT_HOUR} THEN "energy" ELSE "power"

\* the distance rounded to the one decimal the message shows
DistanceValue_one_decimal(pv_kwh, consumption) ==
    Round(Mul(Div(pv_kwh, consumption), Dec(100, 0)), 1)

\* distance = (pv_kwh / self._consumption) * 100; distance_value = round(distance, 2)
DistanceValue(pv_kwh, consumption) ==
    Round(Mul(Div(pv_kwh, consumption), Dec(100, 0)), 2)

\* a distance-based metric rounded to two decimals whatever its precision
DistanceMetric_two_decimals(distance_value, reference_km, ndigits) ==
    Round(Div(distance_value, reference_km), 2)

\* round(distance_value / <reference>_KM, ndigits)
DistanceMetric(distance_value, reference_km, ndigits) ==
    Round(Div(distance_value, reference_km), ndigits)

\* co2_saved_kg from the fuel saved before its rounding
Co2SavedKg_unrounded_fuel(distance_value, fuel_saved_liters) ==
    Round(Mul(Div(Mul(distance_value, FUEL_L_PER_100KM), Dec(100, 0)), CO2_KG_PER_LITER), 1)

\* fuel_saved_liters = round(distance_value * FUEL_L_PER_100KM / 100, 1) is
\* computed from distance_value; co2_saved_kg is
\* round(fuel_saved_liters * CO2_KG_PER_LITER, 1)
Co2SavedKg(distance_value, fuel_saved_liters) ==
    Round(Mul(fuel_saved_liters, CO2_KG_PER_LITER), 1)

\* self_consumed_kwh without the lower limit of 0
SelfConsumedKwh_unclamped(pv_kwh, grid_export_kwh) ==
    IF grid_export_kwh # None THEN Sub(pv_kwh, grid_export_kwh) ELSE None

\* self_consumed_kwh that takes a missing grid export reading for 0
SelfConsumedKwh_zero(pv_kwh, grid_export_kwh) ==
    Max0(Sub(pv_kwh, OrZero(grid_export_kwh)))

\* self_consumed_kwh
SelfConsumedKwh(pv_kwh, grid_export_kwh) ==
    IF grid_export_kwh # None THEN Max0(Sub(pv_kwh, grid_export_kwh)) ELSE None

\* self_consumption_ratio as zero when pv_kwh is not positive
SelfConsumptionRatio_zero_without_pv(self_consumed_kwh, pv_kwh) ==
    IF self_consumed_kwh = None THEN None
    ELSE IF GtZero(pv_kwh) THEN Mul(Div(self_consumed_kwh, pv_kwh), Dec(100, 0))
    ELSE Dec(0, 0)

\* self_consumption_ratio
SelfConsumptionRatio(self_consumed_kwh, pv_kwh) ==
    IF self_consumed_kwh # None /\ GtZero(pv_kwh)
    THEN Mul(Div(self_consumed_kwh, pv_kwh), Dec(100, 0))
    ELSE None

\* grid_net_kwh as import minus export
GridNetKwh_import_minus_export(grid_import_kwh, grid_export_kwh) ==
    IF grid_import_kwh # None \/ grid_export_kwh # None
    THEN Sub(OrZero(grid_import_kwh), OrZero(grid_export_kwh))
    ELSE None

\* grid_net_kwh computed only when both grid readings are present
GridNetKwh_both(grid_import_kwh, grid_export_kwh) ==
    IF grid_import_kwh # None /\ grid_export_kwh # None
    THEN Sub(OrZero(grid_export_kwh), OrZero(grid_import_kwh))
    ELSE None

\* grid_net_kwh
GridNetKwh(grid_import_kwh, grid_export_kwh) ==
    IF grid_import_kwh # None \/ grid_export_kwh # None
    THEN Sub(OrZero(grid_export_kwh), OrZero(grid_import_kwh))
    ELSE None

\* autarky_ratio as the share of the grid import in the consumption
AutarkyRatio_import_share(self_consumed_kwh, grid_import_kwh) ==
    IF self_consumed_kwh # None /\ grid_import_kwh # None
    THEN LET total_consumption_kwh == Add(self_consumed_kwh, grid_import_kwh)
         IN  IF GtZero(total_consumption_kwh)
             THEN Mul(Div(grid_import_kwh, total_consumption_kwh), Dec(100, 0))
             ELSE None
    ELSE None

\* autarky_ratio
AutarkyRatio(self_consumed_kwh, grid_import_kwh) ==
    IF self_consumed_kwh # None /\ grid_import_kwh # None
    THEN LET total_consumption_kwh == Add(self_consumed_kwh, grid_import_kwh)
         IN  IF GtZero(total_consumption_kwh)
             THEN Mul(Div(self_consumed_kwh, total_consumption_kwh), Dec(100, 0))
             ELSE None
    ELSE None

\* the fields of the SolarMetrics dataclass
SolarMetricsFields ==
    {"pv_kwh", "source_key", "distance_value", "message", "earth_rounds",
     "coffee_cups", "fuel_saved_liters", "lisbon_berlin_trips", "nyc_mexico_trips",
     "metric_values", "texts"}

\* The SolarMetrics object built from the normalised readings, given that
\* pv_kwh / consumption did not raise.
BuildMetrics(pv_kwh, source_key, grid_import_kwh, grid_export_kwh, consumption, language) ==
    LET template == GetLang(MESSAGE_TEMPLATES, language)
        metric_texts == GetLang(METRIC_TEXTS, language)
        source_label == GetLang(SOURCE_LABELS, language).entry[source_key]
        distance_value == DistanceValue(pv_kwh, consumption)
        message ==
            [lang |-> template.lang,
             consumption |-> Format(consumption, template.entry.consumption_decimals),
             distance |-> Format(distance_value, template.entry.distance_decimals),
             source |-> source_label]
        earth_rounds == DistanceMetric(distance_value, EARTH_CIRCUMFERENCE_KM, 3)
        coffee_cups == Round(Div(pv_kwh, COFFEE_KWH), 1)
        fuel_saved_liters ==
            Round(Div(Mul(distance_value, FUEL_L_PER_100KM), Dec(100, 0)), 1)
        lisbon_berlin_trips == DistanceMetric(distance_value, LISBON_BERLIN_KM, 2)
        nyc_mexico_trips == DistanceMetric(distance_value, NEW_YORK_MEXICO_CITY_KM, 2)
        self_consumed_kwh == SelfConsumedKwh(pv_kwh, grid_export_kwh)
        self_consumption_ratio == SelfConsumptionRatio(self_consumed_kwh, pv_kwh)
        grid_net_kwh == GridNetKwh(grid_import_kwh, grid_export_kwh)
        autarky_ratio == AutarkyRatio(self_consumed_kwh, grid_import_kwh)
        metric_values ==
            [key \in MetricValueKeys |->
                CASE key \in DistanceKeys ->
                        DistanceMetric(distance_value, ReferenceKm(key), 2)
                  [] key \in EnergyKeys ->
                        Round(Div(pv_kwh, ReferenceKwh(key)), EnergyDigits(key))
                  [] key = "co2_saved_kg" ->
                        Co2SavedKg(distance_value, fuel_saved_liters)
                  [] key = "self_consumed_kwh" -> RoundOpt(self_consumed_kwh, 2)
                  [] key = "self_consumption_ratio" -> RoundOpt(self_consumption_ratio, 1)
                  [] key = "grid_import_kwh" -> RoundOpt(grid_import_kwh, 2)
                  [] key = "grid_export_kwh" -> RoundOpt(grid_export_kwh, 2)
                  [] key = "grid_net_kwh" -> RoundOpt(grid_net_kwh, 2)
                  [] key = "autarky_ratio" -> RoundOpt(autarky_ratio, 1)]
        texts ==
            [key \in TextKeys |->
                CASE key = "earth_rounds" ->
                        FormatText(metric_texts, key, earth_rounds, EARTH_CIRCUMFERENCE_KM)
                  [] key = "coffee_cups" ->
                        FormatText(metric_texts, key, coffee_cups, COFFEE_KWH)
                  [] key = "fuel_saved_liters" ->
                        FormatText(metric_texts, key, fuel_saved_liters, FUEL_L_PER_100KM)
                  [] key = "co2_saved_kg" ->
                        FormatText(metric_texts, key, metric_values[key], CO2_KG_PER_LITER)
                  [] key \in {"self_consumed_kwh", "self_consumption_ratio",
                              "grid_import_kwh", "grid_export_kwh", "grid_net_kwh",
                              "autarky_ratio"} ->
                        OptionalText(metric_texts, key, metric_values[key])
                  [] key = "lisbon_berlin_trips" ->
                        FormatText(metric_texts, key, lisbon_berlin_trips, LISBON_BERLIN_KM)
                  [] key = "nyc_mexico_trips" ->
                        FormatText(metric_texts, key, nyc_mexico_trips,
                                   NEW_YORK_MEXICO_CITY_KM)
                  [] key \in DistanceKeys ->
                        FormatText(metric_texts, key, metric_values[key], ReferenceKm(key))
                  [] key \in EnergyKeys ->
                        FormatText(metric_texts, key, metric_values[key], ReferenceKwh(key))]
    IN  [field \in SolarMetricsFields |->
            CASE field = "pv_kwh" -> pv_kwh
              [] field = "source_key" -> Str(source_key)
              [] field = "distance_value" -> distance_value
              [] field = "message" -> message
              [] field = "earth_rounds" -> earth_rounds
              [] field = "coffee_cups" -> coffee_cups
              [] field = "fuel_saved_liters" -> fuel_saved_liters
              [] field = "lisbon_berlin_trips" -> lisbon_berlin_trips
              [] field = "nyc_mexico_trips" -> nyc_mexico_trips
              [] field = "metric_values" -> metric_values
              [] field = "texts" -> texts]

\* the outcome of the part of _update_from_state before _set_unavailable or
\* _set_from_metrics: "unavailable", the exception that leaves the method, or
\* the SolarMetrics object
Unavailable == [unavailable |-> TRUE]
IsUnavailable(outcome) == "unavailable" \in DOMAIN outcome

ComputeMetrics(self, states) ==
    LET state == StatesGet(states, self._pv_entity_id)
    IN  IF state = None \/ state.state \in {"unknown", "unavailable"} THEN Unavailable
        ELSE LET pv_kwh == _get_kwh_from_state(state) IN
        IF pv_kwh = None THEN Unavailable
        ELSE LET unit == AttrGet(state.attributes, ATTR_UNIT_OF_MEASUREMENT)
                 source_key == SourceKey(unit)
                 grid_import_kwh ==
                     _get_kwh_from_state(StatesGet(states, self._grid_import_entity_id))
                 grid_export_kwh ==
                     _get_kwh_from_state(StatesGet(states, self._grid_export_entity_id))
             IN  IF IsExc(Div(pv_kwh, self._consumption))
                 THEN Div(pv_kwh, self._consumption)
                 ELSE BuildMetrics(pv_kwh, source_key, grid_import_kwh,
                                   grid_export_kwh, self._consumption, self._language)

\* ------------------------------------------------------------------------
\* Entities (SolarInfoSensor and its subclasses)
\* ------------------------------------------------------------------------

CONF_PV_ENTITY_ID == "pv_entity_id"
CONF_GRID_IMPORT_ENTITY_ID == "grid_import_entity_id"
CONF_GRID_EXPORT_ENTITY_ID == "grid_export_entity_id"
CONF_CONSUMPTION == "consumption_kwh_per_100km"
DEFAULT_CONSUMPTION == Dec(180, 1)

\* d.get(key, default) and d.get(key) on a dict modelled as a function
DictGet(d, key, default) == IF key \in DOMAIN d THEN d[key] ELSE default

\* The entities async_setup_entry passes to async_add_entities, in list order
EntityList ==
    << [key |-> "distance", cls |-> "SolarDistanceSensor"],
       [key |-> "message", cls |-> "SolarMessageSensor"],
       [key |-> "earth_rounds", cls |-> "SolarEarthRoundsSensor"],
       [key |-> "coffee_cups", cls |-> "SolarCoffeeSensor"],
       [key |-> "fuel_saved_liters", cls |-> "SolarFuelSavedSensor"],
       [key |-> "co2_saved_kg", cls |-> "SolarMetricSensor"],
       [key |-> "self_consumed_kwh", cls |-> "SolarMetricSensor"],
       [key |-> "self_consumption_ratio", cls |-> "SolarMetricSensor"],
       [key |-> "grid_import_kwh", cls |-> "SolarMetricSensor"],
       [key |-> "grid_export_kwh", cls |-> "SolarMetricSensor"],
       [key |-> "grid_net_kwh", cls |-> "SolarMetricSensor"],
       [key |-> "autarky_ratio", cls |-> "SolarMetricSensor"],
       [key |-> "lisbon_berlin_trips", cls |-> "SolarLisbonBerlinTripsSensor"],
       [key |-> "nyc_mexico_trips", cls |-> "SolarNycMexicoTripsSensor"],
       [key |-> "marathon_equivalents", cls |-> "SolarMetricSensor"],
       [key |-> "berlin_hamburg_trips", cls |-> "SolarMetricSensor"],
       [key |-> "munich_hamburg_trips", cls |-> "SolarMetricSensor"],
       [key |-> "paris_lyon_trips", cls |-> "SolarMetricSensor"],
       [key |-> "london_edinburgh_trips", cls |-> "SolarMetricSensor"],
       [key |-> "rome_milan_trips", cls |-> "SolarMetricSensor"],
       [key |-> "madrid_barcelona_trips", cls |-> "SolarMetricSensor"],
       [key |-> "vienna_prague_trips", cls |-> "SolarMetricSensor"],
       [key |-> "la_sf_trips", cls |-> "SolarMetricSensor"],
       [key |-> "tokyo_osaka_trips", cls |-> "SolarMetricSensor"],
       [key |-> "phone_charges", cls |-> "SolarMetricSensor"],
       [key |-> "laptop_charges", cls |-> "SolarMetricSensor"],
       [key |-> "led_bulb_hours", cls |-> "SolarMetricSensor"],
       [key |-> "tv_hours", cls |-> "SolarMetricSensor"],
       [key |-> "heat_pump_hours", cls |-> "SolarMetricSensor"],
       [key |-> "fridge_days", cls |-> "SolarMetricSensor"],
       [key |-> "washing_cycles", cls |-> "SolarMetricSensor"],
       [key |-> "dishwasher_cycles", cls |-> "SolarMetricSensor"],
       [key |-> "hot_showers", cls |-> "SolarMetricSensor"],
       [key |-> "microwave_meals", cls |-> "SolarMetricSensor"],
       [key |-> "kettle_boils", cls |-> "SolarMetricSensor"] >>

\* The number of entities of EntityList, from its head, that a run sets up
MaxEntities == 12

\* The number of entities, from the head of the list, that the host removes
\* in a run with removals
MaxRemoved == 2

\* the entities of a run
PlatformEntities ==
    SubSeq(EntityList, 1, IF MaxEntities < Len(EntityList) THEN MaxEntities
                          ELSE Len(EntityList))

EntityKeys == {PlatformEntities[i].key : i \in 1..Len(PlatformEntities)}

\* a constructor in which the data of the entry override its options
SolarInfoSensor_data_first(host_language, entry, description) ==
    [key |-> description.key,
     cls |-> description.cls,
     _attr_extra_state_attributes |-> <<>>,
     _attr_available |-> FALSE,
     _attr_native_value |-> None,
     _pv_entity_id |-> entry.data[CONF_PV_ENTITY_ID],
     _grid_import_entity_id |->
         DictGet(entry.data, CONF_GRID_IMPORT_ENTITY_ID,
                 DictGet(entry.options, CONF_GRID_IMPORT_ENTITY_ID, None)),
     _grid_export_entity_id |->
         DictGet(entry.data, CONF_GRID_EXPORT_ENTITY_ID,
                 DictGet(entry.options, CONF_GRID_EXPORT_ENTITY_ID, None)),
     _consumption |-> entry.data[CONF_CONSUMPTION],
     _language |-> _get_language(host_language),
     _unsub |-> None]

\* SolarInfoSensor.__init__ (and the subclass constructors, which add the key)
SolarInfoSensor(host_language, entry, description) ==
    [key |-> description.key,
     cls |-> description.cls,
     _attr_extra_state_attributes |-> <<>>,
     _attr_available |-> FALSE,
     _attr_native_value |-> None,
     _pv_entity_id |-> DictGet(entry.options, CONF_PV_ENTITY_ID, entry.data[CONF_PV_ENTITY_ID]),
     _grid_import_entity_id |->
         DictGet(entry.options, CONF_GRID_IMPORT_ENTITY_ID,
                 DictGet(entry.data, CONF_GRID_IMPORT_ENTITY_ID, None)),
     _grid_export_entity_id |->
         DictGet(entry.options, CONF_GRID_EXPORT_ENTITY_ID,
                 DictGet(entry.data, CONF_GRID_EXPORT_ENTITY_ID, None)),
     _consumption |-> DictGet(entry.options, CONF_CONSUMPTION, entry.data[CONF_CONSUMPTION]),
     _language |-> _get_language(host_language),
     _unsub |-> None]

\* the four configuration attributes every attribute dict starts with
ConfigAttributes(self) ==
    [pv_entity_id |-> self._pv_entity_id,
     grid_import_entity_id |-> self._grid_import_entity_id,
     grid_export_entity_id |-> self._grid_export_entity_id,
     consumption_kwh_per_100km |-> self._consumption]

\* _set_unavailable that forgets to replace the attributes
_set_unavailable_stale(self) ==
    [self EXCEPT !._attr_available = FALSE,
                 !._attr_native_value = None]

_set_unavailable(self) ==
    [self EXCEPT !._attr_available = FALSE,
                 !._attr_native_value = None,
                 !._attr_extra_state_attributes = ConfigAttributes(self)]

\* dt_util.utcnow().isoformat(): the host clock is not modelled, the attribute
\* carries a token
UtcNow == Str("utcnow")

_build_base_attributes(self, metrics) ==
    [pv_entity_id |-> self._pv_entity_id,
     grid_import_entity_id |-> self._grid_import_entity_id,
     grid_export_entity_id |-> self._grid_export_entity_id,
     consumption_kwh_per_100km |-> self._consumption,
     calculated_at |-> UtcNow,
     pv_energy_kwh |-> Round(metrics.pv_kwh, 3),
     pv_source |-> metrics.source_key]

\* {**base, name: value}
With(attributes, name, value) ==
    [k \in DOMAIN attributes \cup {name} |-> IF k = name THEN value ELSE attributes[k]]

\* the "assumptions" attribute of the distance entity
Assumptions ==
    [earth_circumference_km |-> EARTH_CIRCUMFERENCE_KM,
     lisbon_berlin_km |-> LISBON_BERLIN_KM,
     new_york_mexico_city_km |-> NEW_YORK_MEXICO_CITY_KM,
     marathon_km |-> MARATHON_KM,
     berlin_hamburg_km |-> BERLIN_HAMBURG_KM,
     munich_hamburg_km |-> MUNICH_HAMBURG_KM,
     paris_lyon_km |-> PARIS_LYON_KM,
     london_edinburgh_km |-> LONDON_EDINBURGH_KM,
     rome_milan_km |-> ROME_MILAN_KM,
     madrid_barcelona_km |-> MADRID_BARCELONA_KM,
     vienna_prague_km |-> VIENNA_PRAGUE_KM,
     los_angeles_san_francisco_km |-> LA_SF_KM,
     tokyo_osaka_km |-> TOKYO_OSAKA_KM,
     coffee_kwh |-> COFFEE_KWH,
     phone_charge_kwh |-> PHONE_CHARGE_KWH,
     laptop_charge_kwh |-> LAPTOP_CHARGE_KWH,
     led_bulb_kwh_per_hour |-> LED_BULB_KWH_PER_HOUR,
     tv_kwh_per_hour |-> TV_KWH_PER_HOUR,
     fridge_kwh_per_day |-> FRIDGE_KWH_PER_DAY,
     washing_cycle_kwh |-> WASHING_CYCLE_KWH,
     dishwasher_cycle_kwh |-> DISHWASHER_CYCLE_KWH,
     hot_shower_kwh |-> HOT_SHOWER_KWH,
     microwave_meal_kwh |-> MICROWAVE_MEAL_KWH,
     kettle_boil_kwh |-> KETTLE_BOIL_KWH,
     fuel_l_per_100km |-> FUEL_L_PER_100KM]

\* SolarMetricSensor._set_from_metrics
SolarMetricSensor_set_from_metrics(self, metrics) ==
    LET metric_value == metrics.metric_values[self.key]
    IN  IF metric_value = None
        THEN [self EXCEPT !._attr_native_value = None,
                          !._attr_available = FALSE,
                          !._attr_extra_state_attributes =
                              _build_base_attributes(self, metrics)]
        ELSE LET text_value == metrics.texts[self.key]
                 base == _build_base_attributes(self, metrics)
             IN  [self EXCEPT !._attr_native_value = metric_value,
                              !._attr_available = TRUE,
                              !._attr_extra_state_attributes =
                                  IF text_value # None
                                  THEN With(base, "text", text_value)
                                  ELSE base]

\* SolarDistanceSensor._set_from_metrics
SolarDistanceSensor_set_from_metrics(self, metrics) ==
    LET base == _build_base_attributes(self, metrics)
    IN  [self EXCEPT
            !._attr_native_value = metrics.distance_value,
            !._attr_available = TRUE,
            !._attr_extra_state_attributes =
                [k \in DOMAIN base
                       \cup {"earth_rounds", "coffee_cups", "fuel_saved_liters",
                             "lisbon_berlin_trips", "nyc_mexico_trips", "assumptions"} |->
                    CASE k = "earth_rounds" -> metrics.earth_rounds
                      [] k = "coffee_cups" -> metrics.coffee_cups
                      [] k = "fuel_saved_liters" -> metrics.fuel_saved_liters
                      [] k = "lisbon_berlin_trips" -> metrics.lisbon_berlin_trips
                      [] k = "nyc_mexico_trips" -> metrics.nyc_mexico_trips
                      [] k = "assumptions" -> Assumptions
                      [] OTHER -> base[k]]]

\* a message entity that is unavailable without any grid reading
SolarMessageSensor_set_from_metrics_needs_grid(self, metrics) ==
    IF metrics.metric_values["grid_net_kwh"] = None
    THEN [self EXCEPT !._attr_native_value = None,
                      !._attr_available = FALSE,
                      !._attr_extra_state_attributes = _build_base_attributes(self, metrics)]
    ELSE [self EXCEPT !._attr_native_value = metrics.message,
                      !._attr_available = TRUE,
                      !._attr_extra_state_attributes =
                          _build_base_attributes(self, metrics)]

\* SolarMessageSensor._set_from_metrics
SolarMessageSensor_set_from_metrics(self, metrics) ==
    [self EXCEPT !._attr_native_value = metrics.message,
                 !._attr_available = TRUE,
                 !._attr_extra_state_attributes = _build_base_attributes(self, metrics)]

\* _set_from_metrics of SolarEarthRoundsSensor, SolarCoffeeSensor,
\* SolarFuelSavedSensor, SolarLisbonBerlinTripsSensor and
\* SolarNycMexicoTripsSensor: the dedicated field of the metric and its text
FieldSensor_set_from_metrics(self, metrics) ==
    [self EXCEPT !._attr_native_value = metrics[self.key],
                 !._attr_available = TRUE,
                 !._attr_extra_state_attributes =
                     With(_build_base_attributes(self, metrics), "text",
                          metrics.texts[self.key])]

\* self._set_from_metrics(metrics), dispatched on the class of self
_set_from_metrics(self, metrics) ==
    CASE self.cls = "SolarMetricSensor" -> SolarMetricSensor_set_from_metrics(self, metrics)
      [] self.cls = "SolarDistanceSensor" -> SolarDistanceSensor_set_from_metrics(self, metrics)
      [] self.cls = "SolarMessageSensor" -> SolarMessageSensor_set_from_metrics(self, metrics)
      [] OTHER -> FieldSensor_set_from_metrics(self, metrics)

\* the end of _update_from_state, given the outcome of its computation:
\* _set_unavailable, the exception (the entity stays as it was), or
\* _set_from_metrics
ApplyOutcome(self, outcome) ==
    IF IsUnavailable(outcome) THEN _set_unavailable(self)
    ELSE IF IsExc(outcome) THEN self
    ELSE _set_from_metrics(self, outcome)

\* SolarInfoSensor._update_from_state: the entity afterwards
_update_from_state(self, states) == ApplyOutcome(self, ComputeMetrics(self, states))

\* the exception that leaves _update_from_state, or None
UpdateRaises(outcome) == IF IsExc(outcome) THEN outcome ELSE None

\* ------------------------------------------------------------------------
\* Config flow and options flow (config_flow.py)
\* ------------------------------------------------------------------------

\* NumberSelector(min=1, max=100): the bounds of the consumption field
NUMBER_MIN == Dec(1, 0)
NUMBER_MAX == Dec(100, 0)

\* a number selector that checks the maximum only
NumberSelectorValid_max_only(value) ==
    /\ IsFinite(value)
    /\ ~LessThan(NUMBER_MAX, value)

\* NumberSelectorConfig(min=1, max=100, ...) applied to a value
NumberSelectorValid(value) ==
    /\ IsFinite(value)
    /\ ~LessThan(value, NUMBER_MIN)
    /\ ~LessThan(NUMBER_MAX, value)

\* _schema(default)(user_input): the validated input (the default fills a
\* missing consumption), or None when the schema rejects the input
_schema(default_consumption, user_input) ==
    LET filled == IF CONF_CONSUMPTION \in DOMAIN user_input THEN user_input
                  ELSE With(user_input, CONF_CONSUMPTION, default_consumption)
    IN  IF /\ CONF_PV_ENTITY_ID \in DOMAIN filled
           /\ NumberSelectorValid(filled[CONF_CONSUMPTION])
        THEN filled ELSE None

\* _options_schema(defaults)(user_input): every missing key is filled with
\* its default
_options_schema(default_consumption, default_pv_entity_id, default_grid_import_entity_id, default_grid_export_entity_id, user_input) ==
    LET defaults ==
            [k \in {CONF_PV_ENTITY_ID, CONF_GRID_IMPORT_ENTITY_ID,
                    CONF_GRID_EXPORT_ENTITY_ID, CONF_CONSUMPTION} |->
                CASE k = CONF_PV_ENTITY_ID -> default_pv_entity_id
                  [] k = CONF_GRID_IMPORT_ENTITY_ID -> default_grid_import_entity_id
                  [] k = CONF_GRID_EXPORT_ENTITY_ID -> default_grid_export_entity_id
                  [] k = CONF_CONSUMPTION -> default_consumption]
        filled == [k \in DOMAIN defaults |->
                      IF k \in DOMAIN user_input THEN user_input[k] ELSE defaults[k]]
    IN  IF NumberSelectorValid(filled[CONF_CONSUMPTION]) THEN filled ELSE None

\* _validate_entity_ids that looks at the PV entity id only
_validate_entity_ids_pv_only(states, user_input) ==
    LET failing ==
            {key \in {CONF_PV_ENTITY_ID} :
                LET entity_id == DictGet(user_input, key, None)
                IN  /\ entity_id # None
                    /\ entity_id # Str("")
                    /\ StatesGet(states, entity_id) = None}
    IN  [key \in failing |-> Str("entity_not_found")]

\* _validate_entity_ids(hass, user_input): the errors dict
_validate_entity_ids(states, user_input) ==
    LET failing ==
            {key \in {CONF_PV_ENTITY_ID, CONF_GRID_IMPORT_ENTITY_ID,
                      CONF_GRID_EXPORT_ENTITY_ID} :
                LET entity_id == DictGet(user_input, key, None)
                IN  /\ entity_id # None
                    /\ entity_id # Str("")
                    /\ StatesGet(states, entity_id) = None}
    IN  [key \in failing |-> Str("entity_not_found")]

\* _get_entry_data(entry): data.update(options)
_get_entry_data(e) ==
    [k \in DOMAIN e.data \cup DOMAIN e.options |->
        IF k \in DOMAIN e.options THEN e.options[k] ELSE e.data[k]]

\* ------------------------------------------------------------------------
\* State
\* ------------------------------------------------------------------------

VARIABLES
    hass_states,    \* hass.states of the source sensors: entity id -> State or None
    hass_language,  \* hass.config.language
    entry,          \* the config entry [data, options], None before it is created
    flow,           \* the result of the last config or options flow step
    entities,       \* key -> the entity object, for the entities constructed
    added,          \* how many entities of EntityList were added to the host
    listeners,      \* the state-change subscriptions, in order of registration
    dispatch,       \* the entities still to be called for the event in flight
    raised,         \* the exception that left the last callback, or None
    metrics         \* the outcome of the last computation of the calculation run

vars == <<hass_states, hass_language, entry, flow, entities, added, listeners,
          dispatch, raised, metrics>>

PV == "sensor.pv"
GRID_IMPORT == "sensor.grid_import"
GRID_EXPORT == "sensor.grid_export"
GHOST == "sensor.ghost"

SourceIds == {PV, GRID_IMPORT, GRID_EXPORT}

\* hass.states with the given states of the three source sensors
Sources(pv, gi, ge) ==
    [id \in SourceIds |->
        CASE id = PV -> pv [] id = GRID_IMPORT -> gi [] id = GRID_EXPORT -> ge]

\* ------------------------------------------------------------------------
\* Input domains
\* ------------------------------------------------------------------------

\* the consumption rates a user submits, valid and invalid
ConsumptionInputs == {Dec(-5, 0), Dec(0, 0), Dec(1, 0), Dec(18, 0), Dec(1001, 1)}

\* the user_input dicts of the initial flow: the grid fields and the
\* consumption may be left out
UserInputs ==
    LET base == {[pv_entity_id |-> pv] : pv \in {Str(PV), Str(GHOST)}}
        withImport == base \cup {With(b, CONF_GRID_IMPORT_ENTITY_ID, g) :
                                    b \in base, g \in {Str(GRID_IMPORT), Str("")}}
        withExport == withImport \cup {With(b, CONF_GRID_EXPORT_ENTITY_ID, g) :
                                          b \in withImport, g \in {Str(GRID_EXPORT), Str(GHOST)}}
    IN  withExport \cup {With(b, CONF_CONSUMPTION, c) :
                            b \in withExport, c \in ConsumptionInputs}

\* the user_input dicts of the options flow: the PV field may be missing
OptionInputs ==
    UserInputs \cup
    {[k \in DOMAIN u \ {CONF_PV_ENTITY_ID} |-> u[k]] : u \in UserInputs}

\* the source states of the entity life cycle
PvStates ==
    {None, State("unknown", KILO_WATT_HOUR), State("unavailable", None),
     State("abc", KILO_WATT_HOUR), State("5", KILO_WATT_HOUR), State("1000", WATT_HOUR)}

GridImportStates ==
    {None, State("unavailable", KILO_WATT_HOUR), State("0", KILO_WATT_HOUR),
     State("3", KILO_WATT_HOUR)}

GridExportStates ==
    {None, State("abc", KILO_WATT_HOUR), State("0", KILO_WATT_HOUR),
     State("2", KILO_WATT_HOUR)}

SourceStates(id) ==
    CASE id = PV -> PvStates
      [] id = GRID_IMPORT -> GridImportStates
      [] id = GRID_EXPORT -> GridExportStates

\* the config entries of the entity life cycle: entries the flow accepts,
\* and one with the options a later options flow has stored
InstalledEntries ==
    {[data |-> d, options |-> <<>>] :
        d \in {u \in UserInputs :
                  /\ u[CONF_PV_ENTITY_ID] = Str(PV)
                  /\ CONF_CONSUMPTION \in DOMAIN u
                  /\ u[CONF_CONSUMPTION] = DEFAULT_CONSUMPTION
                  /\ \A k \in DOMAIN u : u[k] \notin {Str(GHOST), Str("")}}}
    \cup {[data |-> [pv_entity_id |-> Str(PV),
                     grid_export_entity_id |-> Str(GRID_EXPORT),
                     consumption_kwh_per_100km |-> DEFAULT_CONSUMPTION],
           options |-> [pv_entity_id |-> Str(PV),
                        grid_import_entity_id |-> Str(GRID_IMPORT),
                        grid_export_entity_id |-> Str(GRID_EXPORT),
                        consumption_kwh_per_100km |-> Dec(1, 0)]]}

\* the source states, units, rates and host languages of the calculation run
CalcStateStrings ==
    {"unknown", "unavailable", "abc", "0", "1", "2", "5", "1000", "2.5", "-3", "inf",
     "nan"}

CalcUnits == {KILO_WATT_HOUR, WATT_HOUR, KILO_WATT, WATT, Str("MWh")}

CalcPvStates ==
    {None} \cup {State(s, u) : s \in CalcStateStrings, u \in CalcUnits}
           \cup {StateNoUnit(s) : s \in CalcStateStrings}

CalcGridStates ==
    {None, State("unavailable", KILO_WATT_HOUR), State("abc", KILO_WATT_HOUR),
     State("0", KILO_WATT_HOUR), State("2", KILO_WATT_HOUR),
     State("2000", WATT), State("1000", WATT_HOUR)}

CalcConsumptions == {Dec(1, 0), Dec(18, 0), Dec(100, 0)}

CalcLanguages == {None, <<"de", "CH">>, <<"pt", "BR">>}

\* ------------------------------------------------------------------------
\* Actions
\* ------------------------------------------------------------------------

\* ExcitingInformationConfigFlow.async_step_user with a user_input: the host
\* applies the schema of the form shown before it calls the step
async_step_user(user_input) ==
    /\ entry = None
    /\ LET validated == _schema(DEFAULT_CONSUMPTION, user_input)
           errors == _validate_entity_ids(hass_states, validated)
       IN  IF validated = None
           THEN /\ flow' = [type |-> "form", step_id |-> "user",
                            errors |-> [base |-> Str("invalid_input")]]
                /\ entry' = entry
           ELSE IF errors # <<>>
           THEN /\ flow' = [type |-> "form", step_id |-> "user", errors |-> errors]
                /\ entry' = entry
           ELSE /\ flow' = [type |-> "create_entry", step_id |-> "user", errors |-> <<>>]
                /\ entry' = [data |-> validated, options |-> <<>>]
    /\ UNCHANGED <<hass_states, hass_language, entities, added, listeners, dispatch,
                   raised, metrics>>

\* ExcitingInformationOptionsFlow.async_step_init with a user_input
async_step_init(user_input) ==
    /\ entry # None
    /\ LET validated ==
               _options_schema(
                   DictGet(entry.options, CONF_CONSUMPTION,
                           DictGet(entry.data, CONF_CONSUMPTION, DEFAULT_CONSUMPTION)),
                   DictGet(entry.options, CONF_PV_ENTITY_ID, entry.data[CONF_PV_ENTITY_ID]),
                   DictGet(entry.options, CONF_GRID_IMPORT_ENTITY_ID,
                           DictGet(entry.data, CONF_GRID_IMPORT_ENTITY_ID, None)),
                   DictGet(entry.options, CONF_GRID_EXPORT_ENTITY_ID,
                           DictGet(entry.data, CONF_GRID_EXPORT_ENTITY_ID, None)),
                   user_input)
           with_pv ==
               IF CONF_PV_ENTITY_ID \notin DOMAIN validated
               THEN With(validated, CONF_PV_ENTITY_ID,
                         DictGet(entry.options, CONF_PV_ENTITY_ID,
                                 entry.data[CONF_PV_ENTITY_ID]))
               ELSE validated
           errors == _validate_entity_ids(hass_states, with_pv)
       IN  IF validated = None
           THEN /\ flow' = [type |-> "form", step_id |-> "init",
                            errors |-> [base |-> Str("invalid_input")]]
                /\ entry' = entry
           ELSE IF errors # <<>>
           THEN /\ flow' = [type |-> "form", step_id |-> "init", errors |-> errors]
                /\ entry' = entry
           ELSE /\ flow' = [type |-> "create_entry", step_id |-> "init", errors |-> <<>>]
                /\ entry' = [entry EXCEPT !.options = with_pv]
    /\ UNCHANGED <<hass_states, hass_language, entities, added, listeners, dispatch,
                   raised, metrics>>

\* async_setup_entry of the sensor platform: the entities are constructed
\* from the entry as it is now (first set-up, or set-up after a restart)
async_setup_entry ==
    /\ entry # None
    /\ dispatch = <<>>
    /\ entities' = [k \in EntityKeys |->
                       LET i == CHOOSE j \in 1..Len(PlatformEntities) :
                                    PlatformEntities[j].key = k
                       IN  SolarInfoSensor(hass_language, entry, PlatformEntities[i])]
    /\ added' = 0
    /\ listeners' = <<>>
    /\ UNCHANGED <<hass_states, hass_language, entry, flow, dispatch, raised, metrics>>

\* One run of _update_from_state in a callback of the host, given the outcome
\* of its computation: the entity is replaced by the updated one and the
\* exception that left the method, if any, is recorded
Callback(self, outcome) ==
    /\ entities' = [entities EXCEPT ![self.key] = ApplyOutcome(self, outcome)]
    /\ raised' = UpdateRaises(outcome)

\* async_added_to_hass that subscribes to the PV sensor only
SubscribedIds_pv_only(self) == {self._pv_entity_id[1]}

\* the entity_ids list of async_added_to_hass
SubscribedIds(self) ==
    {self._pv_entity_id[1]}
        \cup (IF self._grid_import_entity_id # None /\ self._grid_import_entity_id # Str("")
              THEN {self._grid_import_entity_id[1]} ELSE {})
        \cup (IF self._grid_export_entity_id # None /\ self._grid_export_entity_id # Str("")
              THEN {self._grid_export_entity_id[1]} ELSE {})

\* SolarInfoSensor.async_added_to_hass of the next entity of the list; the
\* host writes the entity state right after it
async_added_to_hass ==
    /\ entities # <<>>
    /\ added < Len(PlatformEntities)
    /\ dispatch = <<>>
    /\ listeners' = Append(listeners,
                           [key |-> PlatformEntities[added + 1].key,
                            entity_ids |->
                                SubscribedIds(entities[PlatformEntities[added + 1].key])])
    /\ Callback([entities[PlatformEntities[added + 1].key] EXCEPT !._unsub = Str("unsub")],
                ComputeMetrics(entities[PlatformEntities[added + 1].key], hass_states))
    /\ added' = added + 1
    /\ UNCHANGED <<hass_states, hass_language, entry, flow, dispatch, metrics>>

\* the subscribers of an entity id, in order of registration
RECURSIVE Subscribers(_, _)
Subscribers(ls, id) ==
    IF ls = <<>> THEN <<>>
    ELSE IF id \in Head(ls).entity_ids
         THEN <<Head(ls).key>> \o Subscribers(Tail(ls), id)
         ELSE Subscribers(Tail(ls), id)

\* A source sensor changes its state: the host stores the new state and
\* calls the subscribers one after the other.  No other state change is
\* processed before the last subscriber has returned, and none while the
\* platform adds its entities (async_add_entities adds them in one task in
\* which no call suspends).
StateChanged(id, new_state) ==
    /\ dispatch = <<>>
    /\ entities = <<>> \/ added = Len(PlatformEntities)
    /\ new_state # hass_states[id]
    /\ hass_states' = [hass_states EXCEPT ![id] = new_state]
    /\ dispatch' = Subscribers(listeners, id)
    /\ UNCHANGED <<hass_language, entry, flow, entities, added, listeners, raised, metrics>>

\* SolarInfoSensor._handle_state_change of the next subscriber:
\* _update_from_state, then async_write_ha_state publishes the entity
_handle_state_change ==
    /\ dispatch # <<>>
    /\ Callback(entities[Head(dispatch)],
                ComputeMetrics(entities[Head(dispatch)], hass_states))
    /\ dispatch' = Tail(dispatch)
    /\ UNCHANGED <<hass_states, hass_language, entry, flow, added, listeners, metrics>>

\* async_will_remove_from_hass that forgets to call self._unsub()
async_will_remove_from_hass_keeps_listener(i) ==
    /\ entities # <<>>
    /\ dispatch = <<>>
    /\ IF entities[PlatformEntities[i].key]._unsub # None
       THEN /\ listeners' = listeners
            /\ entities' = [entities EXCEPT ![PlatformEntities[i].key]._unsub = None]
       ELSE UNCHANGED <<listeners, entities>>
    /\ UNCHANGED <<hass_states, hass_language, entry, flow, added, dispatch, raised, metrics>>

\* SolarInfoSensor.async_will_remove_from_hass of the i-th entity of the
\* list: self._unsub() removes the subscription of the entity from the host
async_will_remove_from_hass(i) ==
    /\ entities # <<>>
    /\ dispatch = <<>>
    /\ IF entities[PlatformEntities[i].key]._unsub # None
       THEN /\ listeners' = SelectSeq(listeners,
                                     LAMBDA l : l.key # PlatformEntities[i].key)
            /\ entities' = [entities EXCEPT ![PlatformEntities[i].key]._unsub = None]
       ELSE UNCHANGED <<listeners, entities>>
    /\ UNCHANGED <<hass_states, hass_language, entry, flow, added, dispatch, raised, metrics>>

\* one computation of the calculation run: the part of _update_from_state
\* that builds the SolarMetrics object, for the entity constructed from the entry
Calculate ==
    /\ metrics = None
    /\ metrics' = ComputeMetrics(SolarInfoSensor(hass_language, entry, EntityList[1]),
                                 hass_states)
    /\ UNCHANGED <<hass_states, hass_language, entry, flow, entities, added, listeners,
                   dispatch, raised>>

\* ------------------------------------------------------------------------
\* Specifications
\* ------------------------------------------------------------------------

\* The entity life cycle of an installed entry.  The host starts with no
\* state of the source sensors; they report their states in any order,
\* before and after the platform is set up.
Init ==
    /\ hass_states = Sources(None, None, None)
    /\ hass_language = <<"en">>
    /\ entry \in InstalledEntries
    /\ flow = None
    /\ entities = <<>>
    /\ added = 0
    /\ listeners = <<>>
    /\ dispatch = <<>>
    /\ raised = None
    /\ metrics = None

Next ==
    \/ async_setup_entry /\ entities = <<>>
    \/ async_added_to_hass
    \/ \E id \in SourceIds : \E st \in SourceStates(id) : StateChanged(id, st)
    \/ _handle_state_change

Spec == Init /\ [][Next]_vars

\* The entity life cycle with removals.  The host removes entities in the
\* order of the list (the first MaxRemoved of them), each removal in one
\* step between two events; it may call the removal of an entity that holds
\* no subscription at any such time.
NextRemove ==
    \/ async_setup_entry /\ entities = <<>>
    \/ async_added_to_hass
    \/ \E id \in SourceIds :
           \E st \in {None, State("abc", KILO_WATT_HOUR), State("5", KILO_WATT_HOUR)} :
               StateChanged(id, st)
    \/ _handle_state_change
    \/ \E i \in 1..Len(PlatformEntities) :
           /\ entities # <<>>
           /\ \/ entities[PlatformEntities[i].key]._unsub = None
              \/ /\ i <= MaxRemoved
                 /\ \A j \in 1..(i - 1) : entities[PlatformEntities[j].key]._unsub = None
           /\ async_will_remove_from_hass(i)

SpecRemove == Init /\ [][NextRemove]_vars

\* The config flow, the options flow and the construction of the entities
InitFlow ==
    /\ hass_states = [id \in SourceIds |-> State("5", KILO_WATT_HOUR)]
    /\ hass_language = <<"en">>
    /\ entry = None
    /\ flow = None
    /\ entities = <<>>
    /\ added = 0
    /\ listeners = <<>>
    /\ dispatch = <<>>
    /\ raised = None
    /\ metrics = None

NextFlow ==
    \/ \E u \in UserInputs : async_step_user(u)
    \/ \E u \in OptionInputs : async_step_init(u)
    \/ async_setup_entry

SpecFlow == InitFlow /\ [][NextFlow]_vars

\* The calculation run: one computation on inputs drawn from the domains
InitCalc ==
    /\ \E pv \in CalcPvStates : \E gi \in CalcGridStates : \E ge \in CalcGridStates :
           hass_states = Sources(pv, gi, ge)
    /\ hass_language \in CalcLanguages
    /\ \E c \in CalcConsumptions :
           entry = [data |-> [pv_entity_id |-> Str(PV),
                              grid_import_entity_id |-> Str(GRID_IMPORT),
                              grid_export_entity_id |-> Str(GRID_EXPORT),
                              consumption_kwh_per_100km |-> c],
                    options |-> <<>>]
    /\ flow = None
    /\ entities = <<>>
    /\ added = 0
    /\ listeners = <<>>
    /\ dispatch = <<>>
    /\ raised = None
    /\ metrics = None

NextCalc == Calculate

SpecCalc == InitCalc /\ [][NextCalc]_vars

\* ------------------------------------------------------------------------
\* Properties
\* ------------------------------------------------------------------------

\* the entity has been added to the host
IsAdded(key) == \E i \in 1..Len(listeners) : listeners[i].key = key

\* the entity is not waiting for its callback of the event in flight
IsHandled(key) == IsAdded(key) /\ \A i \in 1..Len(dispatch) : dispatch[i] # key

\* the reading of a source state is unusable: missing, marked unknown or
\* unavailable, or not a number
Unusable(state) ==
    \/ state = None
    \/ state.state \in {"unknown", "unavailable"}
    \/ state.state \notin DOMAIN FloatLiterals

\* the names of the attributes that echo the configuration
ConfigAttributeNames ==
    {"pv_entity_id", "grid_import_entity_id", "grid_export_entity_id",
     "consumption_kwh_per_100km"}

\* the state of the source sensor an entity is configured with (None when
\* the field is not configured)
ConfiguredState(self, field) ==
    CASE field = "pv" -> StatesGet(hass_states, self._pv_entity_id)
      [] field = "grid_import" -> StatesGet(hass_states, self._grid_import_entity_id)
      [] field = "grid_export" -> StatesGet(hass_states, self._grid_export_entity_id)

\* C1: once an entity has handled the change, an unusable PV reading (missing,
\* unknown, unavailable, not a number) leaves it unavailable with a null value
\* and with the configuration attributes only: no metric value, no text and no
\* PV energy of an earlier reading.
C1_UnusablePvClearsEntity ==
    \A key \in DOMAIN entities :
        (IsHandled(key) /\ Unusable(hass_states[PV])) =>
            /\ ~entities[key]._attr_available
            /\ entities[key]._attr_native_value = None
            /\ DOMAIN entities[key]._attr_extra_state_attributes = ConfigAttributeNames

\* C1 witness: every entity was added, the event is handled, the PV reading
\* is not a number and the entities carry the attributes _set_unavailable wrote.
C1_Witness ==
    /\ added = Len(PlatformEntities)
    /\ dispatch = <<>>
    /\ hass_states[PV] = State("abc", KILO_WATT_HOUR)
    /\ \A key \in DOMAIN entities :
           /\ ~entities[key]._attr_available
           /\ "pv_entity_id" \in DOMAIN entities[key]._attr_extra_state_attributes

\* the PV energy an entity shows (None for an entity that shows none)
PublishedReading(key) ==
    AttrGet(entities[key]._attr_extra_state_attributes, "pv_energy_kwh")

\* C2: the bundle is published atomically: at no moment do two entities of
\* the entry show results of different PV readings.
C2_AtomicPublication ==
    \A k1 \in DOMAIN entities : \A k2 \in DOMAIN entities :
        (IsAdded(k1) /\ IsAdded(k2)) => PublishedReading(k1) = PublishedReading(k2)

\* C3: after its addition and after every notification it has handled, an
\* entity equals the result of the computation on the current states of its
\* source sensors.
C3_FreshAfterHandling ==
    \A key \in DOMAIN entities :
        IsHandled(key) => entities[key] = _update_from_state(entities[key], hass_states)

\* C3 witness: with the event handled, the grid import entity shows the
\* current grid import reading and the PV energy of the current PV reading,
\* after it had been unavailable or had shown another reading.
C3_Witness ==
    /\ added = Len(PlatformEntities)
    /\ dispatch = <<>>
    /\ hass_states[PV] = State("1000", WATT_HOUR)
    /\ hass_states[GRID_IMPORT] = State("3", KILO_WATT_HOUR)
    /\ entities["grid_import_kwh"]._attr_available
    /\ entities["grid_import_kwh"]._attr_native_value = Dec(3, 0)
    /\ PublishedReading("grid_import_kwh") = Dec(1, 0)

\* the entities whose metric needs the grid import reading, and those whose
\* metric needs the grid export reading; grid_net_kwh needs one of the two
NeedsGridImport == {"grid_import_kwh", "autarky_ratio"}
NeedsGridExport ==
    {"grid_export_kwh", "self_consumed_kwh", "self_consumption_ratio", "autarky_ratio"}
GridKeys == NeedsGridImport \cup NeedsGridExport \cup {"grid_net_kwh"}

\* C4: with a usable PV reading, an unusable or unconfigured grid reading
\* makes exactly the entities that need it unavailable with a null value
\* (grid_net_kwh only when both grid readings are unusable); distance, message
\* and every distance-based and energy-based entity stay available with a value.
C4_SecondaryMissingIsLocal ==
    \A key \in DOMAIN entities :
        LET self == entities[key]
            noImport == Unusable(ConfiguredState(self, "grid_import"))
            noExport == Unusable(ConfiguredState(self, "grid_export"))
            nulled == (IF noImport THEN NeedsGridImport ELSE {})
                          \cup (IF noExport THEN NeedsGridExport ELSE {})
                          \cup (IF noImport /\ noExport THEN {"grid_net_kwh"} ELSE {})
        IN  (IsHandled(key) /\ ~Unusable(hass_states[PV])) =>
                /\ key \in nulled =>
                       ~self._attr_available /\ self._attr_native_value = None
                /\ key \notin GridKeys =>
                       self._attr_available /\ self._attr_native_value # None
                /\ (key \in {"grid_export_kwh", "self_consumed_kwh", "grid_net_kwh"}
                        /\ ~noExport) =>
                       self._attr_available /\ self._attr_native_value # None
                /\ (key \in {"grid_import_kwh", "grid_net_kwh"} /\ ~noImport) =>
                       self._attr_available /\ self._attr_native_value # None

\* C4 witness: the PV reading is usable, the grid import reading is marked
\* unavailable and the grid export reading is usable: the import entity is
\* unavailable while the distance and the export entity show values.
C4_Witness ==
    /\ added = Len(PlatformEntities)
    /\ dispatch = <<>>
    /\ hass_states[PV] = State("5", KILO_WATT_HOUR)
    /\ hass_states[GRID_IMPORT] = State("unavailable", KILO_WATT_HOUR)
    /\ hass_states[GRID_EXPORT] = State("2", KILO_WATT_HOUR)
    /\ entities["grid_import_kwh"]._grid_import_entity_id = Str(GRID_IMPORT)
    /\ ~entities["grid_import_kwh"]._attr_available
    /\ entities["grid_export_kwh"]._attr_native_value = Dec(2, 0)
    /\ entities["distance"]._attr_native_value = Dec(2778, 2)

\* the calculation run has produced a SolarMetrics object
Computed == metrics # None /\ ~IsUnavailable(metrics) /\ ~IsExc(metrics)

\* the metrics the SolarMetrics object carries as fields of their own
DedicatedFields ==
    {"earth_rounds", "coffee_cups", "fuel_saved_liters", "lisbon_berlin_trips",
     "nyc_mexico_trips"}

\* C5: when the grid export reading is absent or unusable, whatever the grid
\* import reading is, self_consumed_kwh, self_consumption_ratio and
\* autarky_ratio are null while the distance, the coffee cups and every
\* energy-based metric have a value.
C5_ExportAbsentNullsSelfConsumption ==
    (Computed /\ Unusable(hass_states[GRID_EXPORT])) =>
        /\ \A key \in {"self_consumed_kwh", "self_consumption_ratio", "autarky_ratio"} :
               metrics.metric_values[key] = None
        /\ metrics.distance_value # None
        /\ metrics.coffee_cups # None
        /\ \A key \in EnergyKeys : metrics.metric_values[key] # None

\* C5 witness: 5 kWh of PV, a grid import reading of 2 kWh and no grid export
\* state: the self-consumption is null, the import, the distance and the
\* phone charges are computed.
C5_Witness ==
    /\ Computed
    /\ hass_states[PV] = State("5", KILO_WATT_HOUR)
    /\ hass_states[GRID_IMPORT] = State("2", KILO_WATT_HOUR)
    /\ hass_states[GRID_EXPORT] = None
    /\ entry.data[CONF_CONSUMPTION] = Dec(18, 0)
    /\ metrics.metric_values["self_consumed_kwh"] = None
    /\ metrics.metric_values["grid_import_kwh"] = Dec(2, 0)
    /\ metrics.distance_value = Dec(2778, 2)
    /\ metrics.metric_values["phone_charges"] = Dec(417, 0)

MetricValue(key) ==
    IF key \in DedicatedFields THEN metrics[key] ELSE metrics.metric_values[key]

\* C7: for every metric key the text is null exactly when the value is null,
\* and an entity updated from the object with a null value has no text
\* attribute.
C7_TextNullIffValueNull ==
    Computed =>
        /\ \A key \in DOMAIN metrics.texts :
               (metrics.texts[key] = None) <=> (MetricValue(key) = None)
        /\ \A i \in 1..Len(EntityList) :
               LET self == _set_from_metrics(
                               SolarInfoSensor(hass_language, entry, EntityList[i]), metrics)
               IN  self._attr_native_value = None =>
                       "text" \notin DOMAIN self._attr_extra_state_attributes

\* C7 witness: a grid import reading of 0 kWh has a text for its value 0,
\* while the absent grid export reading leaves the export metric without
\* value and without text.
C7_Witness ==
    /\ Computed
    /\ hass_states[GRID_IMPORT] = State("0", KILO_WATT_HOUR)
    /\ hass_states[GRID_EXPORT] = None
    /\ metrics.metric_values["grid_import_kwh"] = Dec(0, 0)
    /\ metrics.texts["grid_import_kwh"] # None
    /\ metrics.metric_values["grid_export_kwh"] = None
    /\ metrics.texts["grid_export_kwh"] = None

\* C8: every consumption rate the flows have stored in the entry is strictly
\* positive (a submission with a rate of 0 or less is answered with the form
\* again), and so is the divisor of every entity constructed from the entry.
C8_ConsumptionPositive ==
    /\ entry # None =>
           /\ GtZero(entry.data[CONF_CONSUMPTION])
           /\ CONF_CONSUMPTION \in DOMAIN entry.options =>
                  GtZero(entry.options[CONF_CONSUMPTION])
           /\ GtZero(_get_entry_data(entry)[CONF_CONSUMPTION])
    /\ \A key \in DOMAIN entities : GtZero(entities[key]._consumption)
    /\ (flow # None /\ flow.type = "create_entry") =>
           GtZero(_get_entry_data(entry)[CONF_CONSUMPTION])

\* C8 witness: the options flow has stored a rate of 1, the entities were
\* constructed with it, and the last submission was refused.
C8_Witness ==
    /\ entry # None
    /\ CONF_CONSUMPTION \in DOMAIN entry.options
    /\ entry.options[CONF_CONSUMPTION] = Dec(1, 0)
    /\ entities # <<>>
    /\ \A key \in DOMAIN entities : entities[key]._consumption = Dec(1, 0)
    /\ flow.type = "form"
    /\ flow.errors = [base |-> Str("invalid_input")]

\* C9: no computation ends with an exception, and every metric whose
\* computation met a fault (a division by zero, a result that is not finite)
\* is null: the values of the object are null or finite.
C9_FaultsResolveToNull ==
    /\ metrics # None => ~IsExc(metrics)
    /\ Computed =>
           /\ IsFinite(metrics.distance_value)
           /\ \A key \in DedicatedFields : IsFinite(metrics[key])
           /\ \A key \in DOMAIN metrics.metric_values :
                  metrics.metric_values[key] = None \/ IsFinite(metrics.metric_values[key])

\* the kWh value the normalisation of a usable state is to yield
ExpectedKwh(state) ==
    LET v == FloatLiterals[state.state]
    IN  IF "unit_of_measurement" \in DOMAIN state.attributes
           /\ state.attributes["unit_of_measurement"] \in {Str("Wh"), Str("W")}
        THEN Div(v, Dec(1000, 0))
        ELSE v

\* C10: a usable reading v of the PV, grid import or grid export sensor is
\* normalised to v / 1000 for Wh and W and to v for kWh, kW, any other unit
\* and no unit; the computation uses that value of the PV reading and
\* takes Wh and kWh for energy; 1000 Wh and 1 kWh both give 1.0 kWh.
C10_UnitNormalisation ==
    /\ \A id \in SourceIds :
           ~Unusable(hass_states[id]) =>
               _get_kwh_from_state(hass_states[id]) = ExpectedKwh(hass_states[id])
    /\ Computed =>
           /\ metrics.pv_kwh = ExpectedKwh(hass_states[PV])
           /\ (metrics.source_key = Str("energy")) <=>
                  ("unit_of_measurement" \in DOMAIN hass_states[PV].attributes
                   /\ hass_states[PV].attributes["unit_of_measurement"]
                          \in {Str("Wh"), Str("kWh")})
    /\ (Computed /\ hass_states[PV].state = "1000"
           /\ AttrGet(hass_states[PV].attributes, "unit_of_measurement") = Str("Wh")) =>
           metrics.pv_kwh = Dec(1, 0) /\ metrics.source_key = Str("energy")
    /\ (Computed /\ hass_states[PV].state = "1"
           /\ AttrGet(hass_states[PV].attributes, "unit_of_measurement") = Str("kWh")) =>
           metrics.pv_kwh = Dec(1, 0) /\ metrics.source_key = Str("energy")

\* C10 witness: a PV reading of 1000 Wh was computed as 1 kWh of energy, with
\* a grid import reading of 2000 W as 2 kWh and a grid export reading of
\* 1000 Wh as 1 kWh.
C10_Witness ==
    /\ Computed
    /\ hass_states[PV] = State("1000", WATT_HOUR)
    /\ hass_states[GRID_IMPORT] = State("2000", WATT)
    /\ hass_states[GRID_EXPORT] = State("1000", WATT_HOUR)
    /\ metrics.pv_kwh = Dec(1, 0)
    /\ metrics.source_key = Str("energy")
    /\ metrics.metric_values["grid_import_kwh"] = Dec(2, 0)
    /\ metrics.metric_values["grid_export_kwh"] = Dec(1, 0)

\* the language the texts of the computation are to be in: the first subtag
\* of the host language, "en" without a host language, English when the
\* language has no tables
ExpectedLanguage ==
    IF hass_language = None \/ hass_language = <<"">> THEN "en"
    ELSE IF hass_language[1] \in {"de", "en", "fr", "it", "es"} THEN hass_language[1]
    ELSE "en"

\* the unit of the PV state is watt-hour or kilowatt-hour
PvUnitIsEnergy ==
    /\ "unit_of_measurement" \in DOMAIN hass_states[PV].attributes
    /\ hass_states[PV].attributes["unit_of_measurement"] \in {Str("Wh"), Str("kWh")}

\* C11: the source kind is "energy" exactly when the unit of the PV reading is
\* Wh or kWh and "power" for W, kW, any other unit and no unit; the message
\* carries the label of that source kind; a reading of 2 kW gives the source
\* kind power and pv_kwh = 2.0.
C11_SourceKind ==
    Computed =>
        /\ metrics.source_key = (IF PvUnitIsEnergy THEN Str("energy") ELSE Str("power"))
        /\ metrics.message.source =
               [label |-> <<ExpectedLanguage, IF PvUnitIsEnergy THEN "energy" ELSE "power">>]
        /\ hass_states[PV] = State("2", Str("kW")) =>
               /\ metrics.source_key = Str("power")
               /\ metrics.pv_kwh = Dec(2, 0)

\* C11 witness: a PV reading of 2 kW was computed as 2.0 kWh of the source
\* kind power, with the German power label in the message.
C11_Witness ==
    /\ Computed
    /\ hass_states[PV] = State("2", KILO_WATT)
    /\ hass_language = <<"de", "CH">>
    /\ metrics.source_key = Str("power")
    /\ metrics.pv_kwh = Dec(2, 0)
    /\ metrics.message.source = [label |-> <<"de", "power">>]

\* a <= b for two floats that are no nan
Leq(a, b) == ~LessThan(b, a)

\* the positive PV energies and consumption rates a computed distance is
\* compared with
PositiveKwh ==
    {Dec(1, 3), Dec(25, 3), Dec(1, 0), Dec(2, 0), Dec(25, 1), Dec(5, 0), Dec(1000, 0), INF}
PositiveRates == {Dec(1, 0), Dec(75, 1), Dec(18, 0), Dec(181, 1), Dec(100, 0)}

\* the consumption rate of the entry of the calculation run
Consumption == _get_entry_data(entry)[CONF_CONSUMPTION]

\* C12: for a positive pv_kwh and a positive consumption the distance is
\* pv_kwh * 100 / consumption rounded to two decimals; it is not smaller for a
\* larger pv_kwh nor larger for a larger consumption.
C12_DistanceFormulaMonotone ==
    (Computed /\ GtZero(metrics.pv_kwh) /\ GtZero(Consumption)) =>
        LET pv == metrics.pv_kwh
            c == Consumption
        IN  /\ IsFinite(pv) =>
                   metrics.distance_value =
                       Round(Q(pv.num * 100 * c.den, pv.den * c.num), 2)
            /\ ~IsFinite(pv) => metrics.distance_value = INF
            /\ \A pv2 \in PositiveKwh :
                   /\ Leq(pv, pv2) => Leq(metrics.distance_value, DistanceValue(pv2, c))
                   /\ Leq(pv2, pv) => Leq(DistanceValue(pv2, c), metrics.distance_value)
            /\ \A c2 \in PositiveRates :
                   /\ Leq(c, c2) => Leq(DistanceValue(pv, c2), metrics.distance_value)
                   /\ Leq(c2, c) => Leq(metrics.distance_value, DistanceValue(pv, c2))

\* C12 witness: 1000 Wh at 18 kWh/100 km were computed as 5.56 km, between
\* the 5.52 km of 18.1 kWh/100 km and the 11.11 km of 2 kWh.
C12_Witness ==
    /\ Computed
    /\ hass_states[PV] = State("1000", WATT_HOUR)
    /\ Consumption = Dec(18, 0)
    /\ metrics.distance_value = Dec(556, 2)
    /\ DistanceValue(metrics.pv_kwh, Dec(181, 1)) = Dec(552, 2)
    /\ DistanceValue(Dec(2, 0), Consumption) = Dec(1111, 2)

\* the kWh reading of a source sensor the computation is to use: None for an
\* unusable state
Reading(id) ==
    IF Unusable(hass_states[id]) THEN None ELSE ExpectedKwh(hass_states[id])

\* max(pv_kwh - grid_export_kwh, 0) as the claims state it
ExpectedSelfConsumed ==
    LET d == Sub(Reading(PV), Reading(GRID_EXPORT))
    IN  IF d.den # 0 /\ d.num < 0 THEN Dec(0, 0)
        ELSE IF d = NINF THEN Dec(0, 0)
        ELSE d

\* C13: with a grid export reading, self_consumed_kwh is
\* max(pv_kwh - grid_export_kwh, 0), never negative, and
\* self_consumption_ratio is self_consumed_kwh / pv_kwh * 100 for pv_kwh > 0
\* and null for pv_kwh <= 0; the object carries the first rounded to two
\* decimals and the second to one.
C13_SelfConsumption ==
    (Computed /\ Reading(GRID_EXPORT) # None) =>
        LET pv == Reading(PV)
            sc == SelfConsumedKwh(pv, Reading(GRID_EXPORT))
        IN  /\ sc = ExpectedSelfConsumed
            /\ sc.num >= 0
            /\ metrics.metric_values["self_consumed_kwh"] = Round(ExpectedSelfConsumed, 2)
            /\ metrics.metric_values["self_consumed_kwh"].num >= 0
            /\ GtZero(pv) =>
                   metrics.metric_values["self_consumption_ratio"] =
                       Round(Mul(Div(ExpectedSelfConsumed, pv), Dec(100, 0)), 1)
            /\ (~IsNaN(pv) /\ ~GtZero(pv)) =>
                   metrics.metric_values["self_consumption_ratio"] = None

\* C13 witness: 5 kWh of PV with 2 kWh exported give 3 kWh self-consumed
\* and a ratio of 60 %.
C13_Witness ==
    /\ Computed
    /\ hass_states[PV] = State("5", KILO_WATT_HOUR)
    /\ hass_states[GRID_EXPORT] = State("2", KILO_WATT_HOUR)
    /\ metrics.metric_values["self_consumed_kwh"] = Dec(3, 0)
    /\ metrics.metric_values["self_consumption_ratio"] = Dec(60, 0)

\* C14: grid_net_kwh is grid_export_kwh - grid_import_kwh whenever one of the
\* two grid readings is present, the missing one counting as 0, and null
\* only when both are absent; the object carries it rounded to two decimals.
C14_GridNet ==
    Computed =>
        LET gi == Reading(GRID_IMPORT)
            ge == Reading(GRID_EXPORT)
            import == IF gi = None THEN Dec(0, 0) ELSE gi
            export == IF ge = None THEN Dec(0, 0) ELSE ge
        IN  /\ (gi = None /\ ge = None) <=> (metrics.metric_values["grid_net_kwh"] = None)
            /\ (gi # None \/ ge # None) =>
                   /\ GridNetKwh(gi, ge) = Sub(export, import)
                   /\ metrics.metric_values["grid_net_kwh"] = Round(Sub(export, import), 2)

\* C14 witness: a grid import reading of 2000 W without a grid export state
\* gives a net of -2 kWh.
C14_Witness ==
    /\ Computed
    /\ hass_states[GRID_IMPORT] = State("2000", WATT)
    /\ hass_states[GRID_EXPORT] = None
    /\ metrics.metric_values["grid_net_kwh"] = Dec(-2, 0)
    /\ metrics.metric_values["grid_export_kwh"] = None

\* C15: autarky_ratio is self_consumed_kwh / (self_consumed_kwh +
\* grid_import_kwh) * 100 when the grid export and the grid import reading
\* are present and the sum is positive, and null in every other case; the
\* object carries it rounded to one decimal.
C15_Autarky ==
    Computed =>
        LET gi == Reading(GRID_IMPORT)
            known == gi # None /\ Reading(GRID_EXPORT) # None
        IN  IF known /\ GtZero(Add(ExpectedSelfConsumed, gi))
            THEN metrics.metric_values["autarky_ratio"] =
                     Round(Mul(Div(ExpectedSelfConsumed, Add(ExpectedSelfConsumed, gi)),
                               Dec(100, 0)), 1)
            ELSE metrics.metric_values["autarky_ratio"] = None

\* C15 witness: 5 kWh of PV, 1 kWh exported and 2 kWh imported give 4 kWh
\* self-consumed and an autarky of 66.7 %.
C15_Witness ==
    /\ Computed
    /\ hass_states[GRID_IMPORT] = State("2", KILO_WATT_HOUR)
    /\ hass_states[PV] = State("5", KILO_WATT_HOUR)
    /\ hass_states[GRID_EXPORT] = State("1000", WATT_HOUR)
    /\ metrics.metric_values["autarky_ratio"] = Dec(667, 1)
    /\ metrics.metric_values["self_consumed_kwh"] = Dec(4, 0)

\* C16: whenever the PV reading is usable, the message entity that has
\* handled the change is available with a rendered message (the consumption,
\* the distance and the source label), whether the grid sensors are
\* configured or not and whatever their states are.
C16_MessageAlwaysRendered ==
    ("message" \in DOMAIN entities /\ IsHandled("message") /\ ~Unusable(hass_states[PV])) =>
        LET self == entities["message"]
        IN  /\ self._attr_available
            /\ self._attr_native_value # None
            /\ DOMAIN self._attr_native_value = {"lang", "consumption", "distance", "source"}
            /\ self._attr_native_value.consumption.shown = self._consumption
            /\ self._attr_native_value.source.label[2] \in {"energy", "power"}

\* C16 witness: the grid sensors are configured, the grid import sensor has
\* no state and the grid export state is not a number; the message entity
\* shows the 27.8 km of 5 kWh.
C16_Witness ==
    /\ added = Len(PlatformEntities)
    /\ dispatch = <<>>
    /\ hass_states[PV] = State("5", KILO_WATT_HOUR)
    /\ hass_states[GRID_IMPORT] = None
    /\ hass_states[GRID_EXPORT] = State("abc", KILO_WATT_HOUR)
    /\ entities["message"]._grid_export_entity_id = Str(GRID_EXPORT)
    /\ entities["message"]._attr_available
    /\ entities["message"]._attr_native_value.distance.shown = Dec(278, 1)
    /\ ~entities["grid_net_kwh"]._attr_available

\* C17: for 5.0 kWh at 18.0 kWh/100 km in English the distance is 27.78, the
\* message is the English sentence with the energy label, the distance shown
\* with two decimals (27.78) and the consumption with one (18.0), and
\* coffee_cups is 71.4.
C17_Scenario ==
    (/\ Computed
     /\ hass_states[PV] = State("5", KILO_WATT_HOUR)
     /\ Consumption = Dec(18, 0)
     /\ ExpectedLanguage = "en") =>
        /\ metrics.distance_value = Dec(2778, 2)
        /\ metrics.coffee_cups = Dec(714, 1)
        /\ metrics.message =
               [lang |-> "en",
                consumption |-> [shown |-> Dec(180, 1), decimals |-> 1],
                distance |-> [shown |-> Dec(2778, 2), decimals |-> 2],
                source |-> [label |-> <<"en", "energy">>]]

\* C18: for every metric and every language the number shown in the metric's
\* rendered sentence is the metric's rounded numeric value: the sentence
\* shows the value at the precision at which the numeric field is rounded.
C18_TextShowsValue ==
    Computed =>
        \A key \in DOMAIN metrics.texts :
            metrics.texts[key] # None =>
                metrics.texts[key].value.shown = MetricValue(key)

\* C19: the language of an entity is the host language without its region
\* suffix, "en" when the host has none; the message template, the metric
\* sentences and the source label are all in that language when it has
\* tables, and all three are English together when it has none.
C19_LanguageFallback ==
    Computed =>
        /\ SolarInfoSensor(hass_language, entry, EntityList[1])._language =
               (IF hass_language = None THEN "en" ELSE hass_language[1])
        /\ metrics.message.lang = ExpectedLanguage
        /\ metrics.message.source.label[1] = ExpectedLanguage
        /\ \A key \in DOMAIN metrics.texts :
               metrics.texts[key] # None => metrics.texts[key].lang = ExpectedLanguage

\* a host language without tables ("pt-BR"): template, sentences and label
\* are English
C19_Witness ==
    /\ Computed
    /\ hass_language = <<"pt", "BR">>
    /\ SolarInfoSensor(hass_language, entry, EntityList[1])._language = "pt"
    /\ metrics.message.lang = "en"
    /\ metrics.message.source.label[1] = "en"
    /\ metrics.texts["coffee_cups"].lang = "en"
    /\ metrics.texts["grid_net_kwh"] # None
    /\ metrics.texts["grid_net_kwh"].lang = "en"

\* C20: with a usable PV reading of 0 kWh the distance is 0, every
\* distance-based trip or round metric is 0, coffee_cups is 0, and
\* self_consumption_ratio is null, also when a grid export reading is present.
C20_ZeroPv ==
    (Computed /\ IsZero(metrics.pv_kwh)) =>
        /\ metrics.distance_value = Dec(0, 0)
        /\ \A key \in DistanceKeys : metrics.metric_values[key] = Dec(0, 0)
        /\ \A key \in {"earth_rounds", "lisbon_berlin_trips", "nyc_mexico_trips"} :
               metrics[key] = Dec(0, 0)
        /\ metrics.coffee_cups = Dec(0, 0)
        /\ metrics.metric_values["self_consumption_ratio"] = None
        /\ metrics.texts["self_consumption_ratio"] = None

\* PV 0 kWh with a grid export of 2 kWh: self_consumed_kwh is 0 and the ratio
\* is null
C20_Witness ==
    /\ Computed
    /\ hass_states[PV] = State("0", KILO_WATT_HOUR)
    /\ hass_states[GRID_EXPORT] = State("2", KILO_WATT_HOUR)
    /\ metrics.pv_kwh = Dec(0, 0)
    /\ metrics.distance_value = Dec(0, 0)
    /\ metrics.metric_values["self_consumed_kwh"] = Dec(0, 0)
    /\ metrics.metric_values["self_consumption_ratio"] = None

\* the reference constants that are a divisor or a factor of a metric formula
\* of _update_from_state
UsedConstants ==
    {ReferenceKm(key) : key \in DistanceKeys} \cup {ReferenceKwh(key) : key \in EnergyKeys}
        \cup {EARTH_CIRCUMFERENCE_KM, LISBON_BERLIN_KM, NEW_YORK_MEXICO_CITY_KM,
               COFFEE_KWH, FUEL_L_PER_100KM, CO2_KG_PER_LITER}

\* C21: the "assumptions" record of the available distance entity has an
\* entry for every reference constant that is a divisor or a factor of a
\* metric formula.
C21_AssumptionsEchoConstants ==
    ("distance" \in DOMAIN entities /\ entities["distance"]._attr_available) =>
        LET attributes == entities["distance"]._attr_extra_state_attributes
        IN  /\ "assumptions" \in DOMAIN attributes
            /\ \A c \in UsedConstants :
                   \E name \in DOMAIN attributes["assumptions"] :
                       attributes["assumptions"][name] = c

\* C22: whenever the distance entity is available, every metric key that has
\* an entity of its own is an attribute of the distance entity.
C22_DistanceBundlesAllMetrics ==
    ("distance" \in DOMAIN entities /\ entities["distance"]._attr_available) =>
        \A i \in 1..Len(EntityList) :
            EntityList[i].key \notin {"distance", "message"} =>
                EntityList[i].key \in DOMAIN entities["distance"]._attr_extra_state_attributes

\* C23: every distance-based metric is round(distance / reference_km,
\* precision) of the published two-decimal distance, with precision 3 for
\* earth rounds and 2 for the city-pair trips and the marathon equivalents.
C23_DistanceMetrics ==
    Computed =>
        LET distance == metrics.distance_value
            km == [marathon_equivalents |-> Dec(42195, 3),
                   berlin_hamburg_trips |-> Dec(289, 0),
                   munich_hamburg_trips |-> Dec(776, 0),
                   paris_lyon_trips |-> Dec(465, 0),
                   london_edinburgh_trips |-> Dec(534, 0),
                   rome_milan_trips |-> Dec(571, 0),
                   madrid_barcelona_trips |-> Dec(621, 0),
                   vienna_prague_trips |-> Dec(333, 0),
                   la_sf_trips |-> Dec(615, 0),
                   tokyo_osaka_trips |-> Dec(515, 0)]
        IN  /\ distance = Round(Mul(Div(metrics.pv_kwh, Consumption), Dec(100, 0)), 2)
            /\ metrics.earth_rounds = Round(Div(distance, Dec(39100, 0)), 3)
            /\ metrics.lisbon_berlin_trips = Round(Div(distance, Dec(2310, 0)), 2)
            /\ metrics.nyc_mexico_trips = Round(Div(distance, Dec(3360, 0)), 2)
            /\ DOMAIN km = DistanceKeys
            /\ \A key \in DOMAIN km :
                   metrics.metric_values[key] = Round(Div(distance, km[key]), 2)

\* 1000 kWh at 18 kWh/100 km: 5555.56 km are 0.142 earth rounds (three
\* decimals) and 131.66 marathons (two decimals)
C23_Witness ==
    /\ Computed
    /\ hass_states[PV] = State("1000", KILO_WATT_HOUR)
    /\ Consumption = Dec(18, 0)
    /\ metrics.distance_value = Dec(555556, 2)
    /\ metrics.earth_rounds = Dec(142, 3)
    /\ metrics.metric_values["marathon_equivalents"] = Dec(13166, 2)
    /\ metrics.lisbon_berlin_trips = Dec(241, 2)

\* the reference energy per unit of the energy-based metrics other than
\* coffee cups, and the set of those counted in whole units
ExpectedKwhPerUnit ==
    [phone_charges |-> Dec(12, 3), laptop_charges |-> Dec(6, 2),
     led_bulb_hours |-> Dec(1, 2), tv_hours |-> Dec(1, 1),
     heat_pump_hours |-> Dec(25, 1), fridge_days |-> Dec(15, 1),
     washing_cycles |-> Dec(1, 0), dishwasher_cycles |-> Dec(12, 1),
     hot_showers |-> Dec(45, 1), microwave_meals |-> Dec(1, 1),
     kettle_boils |-> Dec(11, 2)]

\* C24 as stated: every energy-based metric is round(pv_kwh /
\* reference_kwh, precision) with 0 decimals for coffee cups, phone and laptop
\* charges, LED, TV and heat-pump hours, microwave meals and kettle boils,
\* and 1 decimal for fridge days, washing and dishwasher cycles and hot showers.
C24_EnergyMetricsAsStated ==
    Computed =>
        /\ metrics.coffee_cups = Round(Div(metrics.pv_kwh, Dec(7, 2)), 0)
        /\ \A key \in DOMAIN ExpectedKwhPerUnit :
               metrics.metric_values[key] =
                   Round(Div(metrics.pv_kwh, ExpectedKwhPerUnit[key]),
                         IF key \in {"fridge_days", "washing_cycles", "dishwasher_cycles",
                                     "hot_showers"} THEN 1 ELSE 0)

\* C24 (amended): as stated, except that coffee cups are rounded to 1 decimal.
C24_EnergyMetrics ==
    Computed =>
        /\ metrics.coffee_cups = Round(Div(metrics.pv_kwh, Dec(7, 2)), 1)
        /\ DOMAIN ExpectedKwhPerUnit = EnergyKeys
        /\ \A key \in DOMAIN ExpectedKwhPerUnit :
               metrics.metric_values[key] =
                   Round(Div(metrics.pv_kwh, ExpectedKwhPerUnit[key]),
                         IF key \in {"fridge_days", "washing_cycles", "dishwasher_cycles",
                                     "hot_showers"} THEN 1 ELSE 0)

\* 5 kWh: 71.4 coffee cups, 417 phone charges, 2 heat-pump hours, 3.3 fridge
\* days, 1.1 hot showers
C24_Witness ==
    /\ Computed
    /\ metrics.pv_kwh = Dec(5, 0)
    /\ metrics.coffee_cups = Dec(714, 1)
    /\ metrics.metric_values["phone_charges"] = Dec(417, 0)
    /\ metrics.metric_values["heat_pump_hours"] = Dec(2, 0)
    /\ metrics.metric_values["fridge_days"] = Dec(33, 1)
    /\ metrics.metric_values["hot_showers"] = Dec(11, 1)

\* C25: fuel_saved_liters is round(distance * 7.0 / 100, 1), co2_saved_kg is
\* round(fuel_saved_liters * 2.31, 1) of the rounded fuel_saved_liters, and
\* both have a value in every computation of a usable PV reading, whatever
\* the grid readings.
C25_FuelAndCo2 ==
    Computed =>
        /\ metrics.fuel_saved_liters =
               Round(Div(Mul(metrics.distance_value, Dec(7, 0)), Dec(100, 0)), 1)
        /\ metrics.metric_values["co2_saved_kg"] =
               Round(Mul(metrics.fuel_saved_liters, Dec(231, 2)), 1)
        /\ metrics.fuel_saved_liters # None
        /\ metrics.metric_values["co2_saved_kg"] # None
        /\ metrics.texts["fuel_saved_liters"] # None
        /\ metrics.texts["co2_saved_kg"] # None

\* 5 kWh at 18 kWh/100 km without grid readings: 27.78 km save 1.9 l and
\* 4.4 kg (4.5 kg from the unrounded 1.9446 l)
C25_Witness ==
    /\ Computed
    /\ hass_states[GRID_IMPORT] = None
    /\ hass_states[GRID_EXPORT] = None
    /\ metrics.distance_value = Dec(2778, 2)
    /\ metrics.fuel_saved_liters = Dec(19, 1)
    /\ metrics.metric_values["co2_saved_kg"] = Dec(44, 1)

\* C26: a grid reading of exactly 0 is a reading: with a grid export of 0 the
\* self-consumption metrics are computed (self_consumed_kwh is pv_kwh for a
\* PV reading that is not negative), with a grid import of 0 the
\* grid_import_kwh metric is 0 and its entity is available with value 0, and
\* with both readings 0 grid_net_kwh is 0, not null.
C26_ZeroGridReadingIsPresent ==
    Computed =>
        LET pv == Reading(PV)
            gi == Reading(GRID_IMPORT)
            ge == Reading(GRID_EXPORT)
            i == CHOOSE n \in 1..Len(EntityList) : EntityList[n].key = "grid_import_kwh"
            self == _set_from_metrics(SolarInfoSensor(hass_language, entry, EntityList[i]),
                                      metrics)
        IN  /\ (ge # None /\ IsZero(ge)) =>
                   /\ metrics.metric_values["grid_export_kwh"] = Dec(0, 0)
                   /\ metrics.metric_values["self_consumed_kwh"] # None
                   /\ metrics.texts["self_consumed_kwh"] # None
                   /\ (~IsNaN(pv) /\ pv.num >= 0) =>
                          metrics.metric_values["self_consumed_kwh"] = Round(pv, 2)
                   /\ (IsFinite(pv) /\ GtZero(pv)) =>
                          metrics.metric_values["self_consumption_ratio"] = Dec(100, 0)
            /\ (gi # None /\ IsZero(gi)) =>
                   /\ metrics.metric_values["grid_import_kwh"] = Dec(0, 0)
                   /\ metrics.texts["grid_import_kwh"] # None
                   /\ self._attr_available
                   /\ self._attr_native_value = Dec(0, 0)
                   /\ "text" \in DOMAIN self._attr_extra_state_attributes
            /\ (gi # None /\ IsZero(gi) /\ ge # None /\ IsZero(ge)) =>
                   /\ metrics.metric_values["grid_net_kwh"] = Dec(0, 0)
                   /\ metrics.texts["grid_net_kwh"] # None

\* 5 kWh of PV with both grid readings 0: 5 kWh self-consumed, ratio 100,
\* import 0, net 0, autarky 100
C26_Witness ==
    /\ Computed
    /\ hass_states[PV] = State("5", KILO_WATT_HOUR)
    /\ hass_states[GRID_IMPORT] = State("0", KILO_WATT_HOUR)
    /\ hass_states[GRID_EXPORT] = State("0", KILO_WATT_HOUR)
    /\ metrics.metric_values["self_consumed_kwh"] = Dec(5, 0)
    /\ metrics.metric_values["self_consumption_ratio"] = Dec(100, 0)
    /\ metrics.metric_values["grid_import_kwh"] = Dec(0, 0)
    /\ metrics.metric_values["grid_net_kwh"] = Dec(0, 0)
    /\ metrics.metric_values["autarky_ratio"] = Dec(100, 0)

\* C27: an entity whose removal has run holds no subscription; no later step
\* (a state change of the PV or a grid entity and its callbacks) changes the
\* removed entity; and the removal of an entity that holds no subscription
\* (removed before, or never added) changes nothing and raises nothing.
C27_RemovedEntityIsDetached ==
    /\ [](\A k \in DOMAIN entities : entities[k]._unsub = None => ~IsAdded(k))
    /\ [][\A i \in 1..Len(PlatformEntities) :
              (/\ entities # <<>>
               /\ i <= added
               /\ entities[PlatformEntities[i].key]._unsub = None) =>
                  /\ entities' # <<>>
                  /\ entities'[PlatformEntities[i].key] = entities[PlatformEntities[i].key]]_vars
    /\ [][\A i \in 1..Len(PlatformEntities) :
              (/\ entities # <<>>
               /\ entities[PlatformEntities[i].key]._unsub = None
               /\ async_will_remove_from_hass(i)) => UNCHANGED vars]_vars

\* the distance entity was removed while unavailable; the PV sensor then
\* reported 5 kWh, the message entity has handled it and is available, and
\* the distance entity is as it was
C27_Witness ==
    /\ entities # <<>>
    /\ added = Len(PlatformEntities)
    /\ dispatch = <<>>
    /\ entities["distance"]._unsub = None
    /\ ~IsAdded("distance")
    /\ ~entities["distance"]._attr_available
    /\ hass_states[PV] = State("5", KILO_WATT_HOUR)
    /\ entities["message"]._unsub # None
    /\ entities["message"]._attr_available

\* C28: the validation reports "entity_not_found" on exactly the entity ids
\* of an input that are supplied, not empty and unknown to the host, so an
\* omitted or empty grid id is never an error; a step of the initial flow
\* with such an error shows the form and creates no entry, and one without
\* creates the entry from the input; a step of either flow that shows the
\* form with entity errors stores nothing; and every entity id of a stored
\* entry or options update exists in the host.
C28_EntityIdsValidated ==
    /\ [](LET IdKeys == {CONF_PV_ENTITY_ID, CONF_GRID_IMPORT_ENTITY_ID,
                         CONF_GRID_EXPORT_ENTITY_ID}
              Exists(id) == id[1] \in DOMAIN hass_states /\ hass_states[id[1]] # None
              Missing(u) == {k \in IdKeys \cap DOMAIN u : u[k] # Str("") /\ ~Exists(u[k])}
          IN  /\ \A u \in UserInputs \cup OptionInputs :
                     _validate_entity_ids(hass_states, u) =
                         [k \in Missing(u) |-> Str("entity_not_found")]
              /\ (entry # None) =>
                     \A k \in IdKeys :
                         /\ DictGet(entry.data, k, None) \in {None, Str("")}
                                \/ Exists(entry.data[k])
                         /\ DictGet(entry.options, k, None) \in {None, Str("")}
                                \/ Exists(entry.options[k]))
    /\ [][LET IdKeys == {CONF_PV_ENTITY_ID, CONF_GRID_IMPORT_ENTITY_ID,
                         CONF_GRID_EXPORT_ENTITY_ID}
              Exists(id) == id[1] \in DOMAIN hass_states /\ hass_states[id[1]] # None
              Missing(u) == {k \in IdKeys \cap DOMAIN u : u[k] # Str("") /\ ~Exists(u[k])}
              NumberOk(u) ==
                  (CONF_CONSUMPTION \in DOMAIN u) => NumberSelectorValid(u[CONF_CONSUMPTION])
          IN  /\ \A u \in UserInputs :
                     (NumberOk(u) /\ async_step_user(u)) =>
                         IF Missing(u) = {}
                         THEN /\ flow'.type = "create_entry"
                              /\ entry' # None
                              /\ \A k \in DOMAIN u : entry'.data[k] = u[k]
                         ELSE /\ flow' = [type |-> "form", step_id |-> "user",
                                          errors |-> [k \in Missing(u) |->
                                                         Str("entity_not_found")]]
                              /\ entry' = entry
              /\ (entry' # entry) => (flow'.type = "create_entry")
              /\ (/\ flow' # None
                  /\ flow'.type = "form"
                  /\ "base" \notin DOMAIN flow'.errors) =>
                     /\ entry' = entry
                     /\ DOMAIN flow'.errors # {}
                     /\ DOMAIN flow'.errors \subseteq IdKeys
                     /\ \A k \in DOMAIN flow'.errors :
                            /\ flow'.errors[k] = Str("entity_not_found")
                            /\ \E u \in OptionInputs \cup UserInputs :
                                   k \in Missing(u)]_vars

\* an options update was stored, and a later one that names an unknown PV
\* and an unknown grid export entity was refused with both fields in error
C28_Witness ==
    /\ entry # None
    /\ entry.options # <<>>
    /\ flow # None
    /\ flow.type = "form"
    /\ flow.step_id = "init"
    /\ flow.errors = [k \in {CONF_PV_ENTITY_ID, CONF_GRID_EXPORT_ENTITY_ID} |->
                          Str("entity_not_found")]
    /\ \A k \in DOMAIN entry.options :
           entry.options[k] \notin {Str(GHOST)}

\* C29: the PV entity id, the grid entity ids, the consumption rate and the
\* language of every entity are the values of the entry at construction, a
\* key of the options overriding the key of the data; no step (adding, a
\* state change, a recomputation, turning unavailable) changes them, and the
\* consumption rate every entity publishes is that rate.
C29_ConfigurationFixed ==
    /\ [](entities # <<>> =>
              \A k \in DOMAIN entities :
                  LET Configured(name) ==
                          IF name \in DOMAIN entry.options THEN entry.options[name]
                          ELSE IF name \in DOMAIN entry.data THEN entry.data[name]
                          ELSE None
                      attributes == entities[k]._attr_extra_state_attributes
                  IN  /\ entities[k]._pv_entity_id = Configured("pv_entity_id")
                      /\ entities[k]._grid_import_entity_id = Configured("grid_import_entity_id")
                      /\ entities[k]._grid_export_entity_id = Configured("grid_export_entity_id")
                      /\ entities[k]._consumption = Configured("consumption_kwh_per_100km")
                      /\ entities[k]._language = ExpectedLanguage
                      /\ (attributes # <<>>) =>
                             attributes["consumption_kwh_per_100km"] =
                                 Configured("consumption_kwh_per_100km")
                      /\ (k = "message" /\ entities[k]._attr_native_value # None) =>
                             entities[k]._attr_native_value.consumption.shown =
                                 Configured("consumption_kwh_per_100km"))
    /\ [][(entities # <<>> /\ entities' # <<>>) =>
              \A k \in DOMAIN entities :
                  /\ entities'[k]._pv_entity_id = entities[k]._pv_entity_id
                  /\ entities'[k]._grid_import_entity_id = entities[k]._grid_import_entity_id
                  /\ entities'[k]._grid_export_entity_id = entities[k]._grid_export_entity_id
                  /\ entities'[k]._consumption = entities[k]._consumption
                  /\ entities'[k]._language = entities[k]._language]_vars

\* an entry whose options set 1 kWh/100 km over the 18 of its data and add a
\* grid import sensor: after the PV sensor reported 1000 Wh every entity has
\* handled it, the distance is 100 km and the grid import entity subscribes
\* to the sensor of the options
C29_Witness ==
    /\ entry.options # <<>>
    /\ entry.data[CONF_CONSUMPTION] = DEFAULT_CONSUMPTION
    /\ entities # <<>>
    /\ added = Len(PlatformEntities)
    /\ dispatch = <<>>
    /\ hass_states[PV] = State("1000", WATT_HOUR)
    /\ entities["distance"]._consumption = Dec(1, 0)
    /\ entities["distance"]._attr_available
    /\ entities["distance"]._attr_native_value = Dec(100, 0)
    /\ entities["distance"]._grid_import_entity_id = Str(GRID_IMPORT)
    /\ ~entities["grid_import_kwh"]._attr_available

\* C30: for pv_kwh > 0 and grid readings that are not negative,
\* self_consumption_ratio and autarky_ratio are in the range 0..100 whenever
\* they are not null, and self_consumed_kwh is not greater than pv_kwh.
C30_RatiosInRange ==
    (/\ Computed
     /\ GtZero(Reading(PV))
     /\ Reading(GRID_IMPORT) = None \/ Reading(GRID_IMPORT).num >= 0
     /\ Reading(GRID_EXPORT) = None \/ Reading(GRID_EXPORT).num >= 0) =>
        LET InRange(x) == IsFinite(x) /\ x.num >= 0 /\ Leq(x, Dec(100, 0))
            ratio == metrics.metric_values["self_consumption_ratio"]
            autarky == metrics.metric_values["autarky_ratio"]
            self_consumed == metrics.metric_values["self_consumed_kwh"]
        IN  /\ ratio # None => InRange(ratio)
            /\ autarky # None => InRange(autarky)
            /\ self_consumed # None =>
                   /\ ~IsNaN(self_consumed)
                   /\ Leq(self_consumed, Round(Reading(PV), 2))

====
